---- MODULE Spec2Model ----
(***************************************************************************)
(* A model of the race core of goderby: the trajectory simulator           *)
(* (internal/game/race_simulator.go), the payout tables                    *)
(* (internal/models/race.go), the horse model (models/horse.go) and the    *)
(* live playback controller RaceModel (internal/ui/race.go) as it is       *)
(* driven by the Bubble Tea message loop of cmd/main.go.                   *)
(*                                                                         *)
(* Entrant identities are naturals: 0 is the player's horse, k >= 1 is the *)
(* generated opponent "ai_k".  Commentary and event strings are cosmetic   *)
(* and are not part of the state.  Go's int(float) conversions are         *)
(* modelled by truncating integer division on exact rationals.             *)
(***************************************************************************)
EXTENDS Integers, Sequences, FiniteSets, TLC

(***************************************************************************)
(* Bounds of the model (not program constants).                            *)
(***************************************************************************)
\* greatest base speed handed to the strategy stage on its own
MaxBaseSpeed == 20
\* greatest simulated distance handed to the playback stage on its own
MaxDistance == 12
\* greatest final rank handed to the payout tables on their own
MaxRank == 9
\* race.MaxEntrants of the modelled race: the player plus FieldSize-1 opponents
FieldSize == 3
\* number of seeds of the random source that drives the per-turn jitter
NumSeeds == 2
\* lane moves and whips the player makes in a session
MaxInputs == 1
\* whips the player lands in a whip session
MaxWhips == 4
\* races started in one session
MaxRaces == 2
\* NavigationMsg values that may be in flight at once
MaxPending == 1
\* Train and Rest calls made on one horse in the stable
MaxSessions == 3
\* lane moves the player makes in a lane session
MaxLaneMoves == 2

(***************************************************************************)
(* Helpers.                                                                *)
(***************************************************************************)
\* Go integer division and int(float64) conversion: truncation toward zero
GoDiv(a, b) ==
    IF a >= 0 THEN a \div b ELSE -((-a) \div b)

Min(a, b) ==
    IF a < b THEN a ELSE b

Max(a, b) ==
    IF a > b THEN a ELSE b

\* every order in which a Go map with key set S may be iterated
IterationOrders(S) ==
    {s \in [1..Cardinality(S) -> S] : \A i, j \in 1..Cardinality(S) : i # j => s[i] # s[j]}

Swap(s, i, j) ==
    [s EXCEPT ![i] = s[j], ![j] = s[i]]

(***************************************************************************)
(* models.Horse                                                            *)
(***************************************************************************)
\* GetAgePerformanceFactor, in percent
GetAgePerformanceFactor(age) ==
    CASE age = 2 -> 85
      [] age = 3 -> 95
      [] age = 4 -> 100
      [] age = 5 -> 102
      [] age = 6 -> 100
      [] age = 7 -> 98
      [] age = 8 -> 94
      [] age = 9 -> 88
      [] age = 10 -> 80
      [] OTHER -> IF age > 10 THEN 70 ELSE 100

GetAgeAdjustedRating(age, baseRating) ==
    Max(GoDiv(baseRating * GetAgePerformanceFactor(age), 100), GoDiv(baseRating, 10))

GetOverallRating(h) ==
    GetAgeAdjustedRating(h.Age, GoDiv(h.Stamina + h.Speed + h.Technique + h.Mental, 4))

\* the sum CalculateDisobedienceChance caps, in thousandths, without the cap
CalculateDisobedienceChanceUncapped(h, whipUsageCount) ==
    50 + h.Fatigue * 3 + (50 - h.Morale) * 3 + (50 - h.Mental) * 2 + whipUsageCount * 50

\* CalculateDisobedienceChance, in thousandths: every term of the sum is a
\* whole number of thousandths
CalculateDisobedienceChance(h, whipUsageCount) ==
    LET baseChance == 50
        fatigueModifier == h.Fatigue * 3
        moraleModifier == (50 - h.Morale) * 3
        mentalModifier == (50 - h.Mental) * 2
        whipAbuseModifier == whipUsageCount * 50
        totalChance == baseChance + fatigueModifier + moraleModifier + mentalModifier
                           + whipAbuseModifier
    IN  IF totalChance < 50 THEN 50
        ELSE IF totalChance > 800 THEN 800
        ELSE totalChance

\* morale and fatigue changes after a race
ApplyRaceResults(h, position, totalEntrants) ==
    LET morale ==
            CASE position = 1 -> Min(h.Morale + 20, 100)
              [] position # 1 /\ position <= 3 -> Min(h.Morale + 10, 100)
              [] position > 3 /\ position <= GoDiv(totalEntrants, 2) -> Min(h.Morale + 5, 100)
              [] position > 3 /\ position > GoDiv(totalEntrants, 2)
                 /\ position <= GoDiv(totalEntrants * 3, 4) -> h.Morale
              [] OTHER -> Max(h.Morale - 10, 20)
    IN  [h EXCEPT !.Morale = morale, !.Fatigue = Min(h.Fatigue + 25, 100)]

(***************************************************************************)
(* models.Race                                                             *)
(***************************************************************************)
GetEntryFee(race) ==
    CASE race.Grade = 0 -> 100
      [] race.Grade = 1 -> 300
      [] race.Grade = 2 -> 500
      [] race.Grade = 3 -> 1000
      [] race.Grade = 4 -> 2000
      [] OTHER -> 100

\* the prize table paying the first three only
GetPrizeForPositionTopThree(race, position) ==
    CASE position = 1 -> race.Prize
      [] position = 2 -> GoDiv(race.Prize, 2)
      [] position = 3 -> GoDiv(race.Prize, 4)
      [] OTHER -> 0

GetPrizeForPosition(race, position) ==
    CASE position = 1 -> race.Prize
      [] position = 2 -> GoDiv(race.Prize, 2)
      [] position = 3 -> GoDiv(race.Prize, 4)
      [] position \in {4, 5} -> GoDiv(race.Prize, 8)
      [] OTHER -> 0

GetFansForPosition(race, position) ==
    CASE position = 1 -> 1000 + race.Grade * 500
      [] position = 2 -> 500 + race.Grade * 250
      [] position = 3 -> 250 + race.Grade * 100
      [] position \in {4, 5} -> 100 + race.Grade * 50
      [] OTHER -> 25

\* r.AddEntrant(horseID): refused when full or already entered
AddEntrant(race, horseID) ==
    IF Len(race.Entrants) >= race.MaxEntrants
        \/ \E i \in 1..Len(race.Entrants) : race.Entrants[i] = horseID
    THEN race
    ELSE [race EXCEPT !.Entrants = Append(race.Entrants, horseID)]

CanEnter(race, h) ==
    /\ GetOverallRating(h) >= race.MinRating
    /\ Len(race.Entrants) < race.MaxEntrants

(***************************************************************************)
(* game.RaceSimulator                                                      *)
(***************************************************************************)
\* the multipliers rand.Float64 can give to 0.8 + r*0.4, in percent
JitterPct == <<80, 90, 100, 110, 119>>

\* The random source: the jitter of entrant number i in a turn is a fixed
\* function of the seed of the run, as with a seeded generator.
Draw(seed, turn, i) ==
    JitterPct[((4 * seed + turn + 2 * i + 2 * turn * i + 4 * seed * turn + seed * i
                + turn * turn) % 5) + 1]

\* the turn count without the minimum of lines 28-30
NumTurnsNoMinimum(distance) ==
    GoDiv(distance, 100)

NumTurns(distance) ==
    Max(GoDiv(distance, 100), 10)

\* calculateHorseSpeed without the floor of lines 198-200
calculateHorseSpeedUnfloored(horse, turn, totalTurns) ==
    LET speed == GoDiv(horse.Speed, 5) + GoDiv(horse.Technique, 20)
                     + GoDiv(horse.Mental, 25) - GoDiv(horse.Fatigue, 10)
        staminaFactor == IF 2 * turn > totalTurns THEN horse.Stamina ELSE 100
    IN  GoDiv(speed * staminaFactor * GetAgePerformanceFactor(horse.Age), 10000)

calculateHorseSpeed(horse, turn, totalTurns) ==
    LET baseSpeed == GoDiv(horse.Speed, 5)
        techniqueBonus == GoDiv(horse.Technique, 20)
        mentalBonus == GoDiv(horse.Mental, 25)
        fatiguePenalty == GoDiv(horse.Fatigue, 10)
        \* raceProgress > 0.5
        staminaFactor == IF 2 * turn > totalTurns THEN horse.Stamina ELSE 100
        speed == baseSpeed + techniqueBonus + mentalBonus - fatiguePenalty
    IN  Max(GoDiv(speed * staminaFactor * GetAgePerformanceFactor(horse.Age), 10000), 1)

\* int(float64(baseSpeed) * f) is the truncated quotient written here for
\* every base speed below 45, which covers the speeds of the model
applyStrategyModifier(strategy, baseSpeed, turn, totalTurns) ==
    CASE strategy.Formation = "Lead" ->
            IF 10 * turn < 3 * totalTurns THEN GoDiv(baseSpeed * 12, 10) ELSE baseSpeed
      [] strategy.Formation = "Draft" ->
            IF 10 * turn > 7 * totalTurns THEN GoDiv(baseSpeed * 13, 10)
            ELSE GoDiv(baseSpeed * 9, 10)
      [] strategy.Formation = "Mount" ->
            IF 10 * turn > 8 * totalTurns THEN GoDiv(baseSpeed * 14, 10)
            ELSE GoDiv(baseSpeed * 8, 10)
      [] OTHER ->
            CASE strategy.Pace = "Fast" ->
                    IF 2 * turn < totalTurns THEN GoDiv(baseSpeed * 12, 10)
                    ELSE GoDiv(baseSpeed * 8, 10)
              [] strategy.Pace = "Even" -> baseSpeed
              [] strategy.Pace = "Conserve" ->
                    IF 10 * turn > 6 * totalTurns THEN GoDiv(baseSpeed * 11, 10)
                    ELSE GoDiv(baseSpeed * 9, 10)
              [] OTHER -> baseSpeed

\* the exchange sort of updatePositions and recalculatePositions: ids is the
\* order in which the map was iterated, the result is ordered by distance,
\* highest first
RECURSIVE SortInner(_, _, _, _)
\* the inner loop with the comparison turned round
SortInnerAscending(ids, distances, i, j) ==
    IF j > Len(ids) THEN ids
    ELSE SortInner(IF distances[ids[i]] > distances[ids[j]] THEN Swap(ids, i, j) ELSE ids,
                   distances, i, j + 1)

SortInner(ids, distances, i, j) ==
    IF j > Len(ids) THEN ids
    ELSE SortInner(IF distances[ids[i]] < distances[ids[j]] THEN Swap(ids, i, j) ELSE ids,
                   distances, i, j + 1)

RECURSIVE SortByDistance(_, _, _)
SortByDistance(ids, distances, i) ==
    IF i >= Len(ids) THEN ids
    ELSE SortByDistance(SortInner(ids, distances, i, i + 1), distances, i + 1)

\* the assignment with positions[horseID] = i, ranks counted from 0
AssignPositionsFromZero(positions, sorted) ==
    [h \in DOMAIN positions |->
        IF \E i \in 1..Len(sorted) : sorted[i] = h
        THEN (CHOOSE i \in 1..Len(sorted) : sorted[i] = h) - 1
        ELSE positions[h]]

\* positions[horseID] = i + 1 for the i-th of the sorted ids
AssignPositions(positions, sorted) ==
    [h \in DOMAIN positions |->
        IF \E i \in 1..Len(sorted) : sorted[i] = h
        THEN CHOOSE i \in 1..Len(sorted) : sorted[i] = h
        ELSE positions[h]]

\* updatePositions: every result the iteration order of the distances map allows
updatePositions(positions, distances) ==
    {AssignPositions(positions, SortByDistance(ids, distances, 1)) :
        ids \in IterationOrders(DOMAIN distances)}

\* the stamina check moving the exhausted entrant back by half the movement
MoveEntrantBackwards(distance, stamina, movement) ==
    LET staminaCost == GoDiv(movement, 2)
    IN  IF stamina >= staminaCost
        THEN [distance |-> distance + movement, stamina |-> stamina - staminaCost]
        ELSE [distance |-> distance - GoDiv(movement, 2), stamina |-> 0]

\* the stamina check moving in full without the debit of line 88
MoveEntrantUncharged(distance, stamina, movement) ==
    IF stamina >= GoDiv(movement, 2)
    THEN [distance |-> distance + movement, stamina |-> stamina]
    ELSE [distance |-> distance + GoDiv(movement, 2), stamina |-> 0]

\* one entrant's move in one turn: the stamina check of Simulate
MoveEntrant(distance, stamina, movement) ==
    LET staminaCost == GoDiv(movement, 2)
    IN  IF stamina >= staminaCost
        THEN [distance |-> distance + movement, stamina |-> stamina - staminaCost]
        ELSE [distance |-> distance + GoDiv(movement, 2), stamina |-> 0]

\* movement of the i-th entrant in a turn: speed, strategy and random factor
Movement(rs, seed, turn, numTurns, i) ==
    LET horseID == rs.race.Entrants[i]
        speed == calculateHorseSpeed(rs.horses[horseID], turn, numTurns)
        baseSpeed == IF horseID = rs.playerHorse
                     THEN applyStrategyModifier(rs.strategy, speed, turn, numTurns)
                     ELSE speed
    IN  GoDiv(baseSpeed * Draw(seed, turn, i), 100)

\* the movement loop of one turn over rs.race.Entrants
SimulateTurn(rs, seed, turn, numTurns, st) ==
    LET moved(i) ==
            LET horseID == rs.race.Entrants[i]
            IN  MoveEntrant(st.distances[horseID], st.stamina[horseID],
                            Movement(rs, seed, turn, numTurns, i))
        idx(h) == CHOOSE i \in 1..Len(rs.race.Entrants) : rs.race.Entrants[i] = h
    IN  [distances |-> [h \in DOMAIN st.distances |-> moved(idx(h)).distance],
         stamina |-> [h \in DOMAIN st.stamina |-> moved(idx(h)).stamina]]

\* the distances and the stamina counters before the first turn
SimulateStart(rs) ==
    LET ids == {rs.race.Entrants[i] : i \in 1..Len(rs.race.Entrants)}
    IN  [distances |-> [h \in ids |-> 0],
         stamina |-> [h \in ids |-> rs.horses[h].Stamina]]

\* the race loop: the set of (liveProgress, positions, distances) it can end
\* with, one for every way the position maps of the turns can come out
RECURSIVE SimulateLoop(_, _, _, _, _)
SimulateLoop(rs, seed, turn, numTurns, runs) ==
    IF turn > numTurns THEN runs
    ELSE SimulateLoop(rs, seed, turn + 1, numTurns,
            UNION {
                LET st == SimulateTurn(rs, seed, turn, numTurns, run.st)
                IN  {[st |-> st,
                      positions |-> p,
                      liveProgress |-> Append(run.liveProgress,
                          [Turn |-> turn, Positions |-> p, Distances |-> st.distances])] :
                        p \in updatePositions(run.positions, st.distances)}
                : run \in runs})

\* the final sort of the entrants by position
RECURSIVE SortResultsInner(_, _, _)
\* the inner loop of the final sort with the comparison turned round
SortResultsInnerDescending(es, i, j) ==
    IF j > Len(es) THEN es
    ELSE SortResultsInner(IF es[i].Position < es[j].Position THEN Swap(es, i, j) ELSE es,
                          i, j + 1)

SortResultsInner(es, i, j) ==
    IF j > Len(es) THEN es
    ELSE SortResultsInner(IF es[i].Position > es[j].Position THEN Swap(es, i, j) ELSE es,
                          i, j + 1)

RECURSIVE SortResults(_, _)
SortResults(es, i) ==
    IF i >= Len(es) THEN es
    ELSE SortResults(SortResultsInner(es, i, i + 1), i + 1)

\* Simulate: every RaceResult the run with this seed can return
Simulate(rs, seed) ==
    LET numTurns == NumTurns(rs.race.Distance)
        ids == {rs.race.Entrants[i] : i \in 1..Len(rs.race.Entrants)}
        first == [st |-> SimulateStart(rs),
                  positions |-> [h \in ids |->
                      CHOOSE i \in 1..Len(rs.race.Entrants) : rs.race.Entrants[i] = h],
                  liveProgress |-> <<>>]
    IN  {LET finalEntrants ==
                [i \in 1..Len(rs.race.Entrants) |->
                    [HorseID |-> rs.race.Entrants[i],
                     Position |-> run.positions[rs.race.Entrants[i]],
                     Distance |-> run.st.distances[rs.race.Entrants[i]]]]
             \* a Go map gives 0 for a key it does not hold
             playerRank == IF rs.playerHorse \in DOMAIN run.positions
                           THEN run.positions[rs.playerHorse]
                           ELSE 0
         IN  [Results |-> SortResults(finalEntrants, 1),
              PlayerHorse |-> rs.playerHorse,
              PlayerRank |-> playerRank,
              PrizeMoney |-> GetPrizeForPosition(rs.race, playerRank),
              FansGained |-> GetFansForPosition(rs.race, playerRank),
              LiveProgress |-> run.liveProgress] :
            run \in SimulateLoop(rs, seed, 1, numTurns, {first})}

(***************************************************************************)
(* The inputs of the session.                                              *)
(***************************************************************************)
\* gameState.PlayerHorse.ID
PlayerHorseID == 0

\* races of the roster (data.LoadRaces), before anybody entered them: a sprint
\* of the minimum number of turns and a race of the length of the Maiden Stakes
SprintRace ==
    [Distance |-> 1000, Grade |-> 0, Prize |-> 5000, MinRating |-> 40,
     MaxEntrants |-> FieldSize, Entrants |-> <<>>]

MileRace ==
    [Distance |-> 1600, Grade |-> 0, Prize |-> 5000, MinRating |-> 40,
     MaxEntrants |-> FieldSize, Entrants |-> <<>>]

\* the first race of the default roster, open to every rating
MaidenStakes ==
    [Distance |-> 1600, Grade |-> 0, Prize |-> 5000, MinRating |-> 0,
     MaxEntrants |-> FieldSize, Entrants |-> <<>>]

\* the player's horse as loaded from the saved game
LoadedHorse ==
    [Speed |-> 60, Technique |-> 50, Mental |-> 50, Stamina |-> 40, Age |-> 3,
     Fatigue |-> 0, Morale |-> 100, Money |-> 250, FanSupport |-> 0, Wins |-> 0, Races |-> 0]

\* the same horse after four races without rest
TiredHorse ==
    [LoadedHorse EXCEPT !.Fatigue = 100]

\* a horse trained beyond 100, which the limits MaxStamina, MaxSpeed, ... allow
TrainedHorse ==
    [LoadedHorse EXCEPT !.Speed = 130, !.Technique = 110, !.Mental = 110, !.Stamina = 120,
                        !.Age = 5]

Seeds == 1..NumSeeds

(***************************************************************************)
(* ui.RaceModel                                                            *)
(***************************************************************************)
\* m.result = nil
NilResult ==
    [Results |-> <<>>, PlayerHorse |-> PlayerHorseID, PlayerRank |-> 0,
     PrizeMoney |-> 0, FansGained |-> 0]

NewRaceModel(h, races) ==
    [races |-> SelectSeq(races, LAMBDA r : CanEnter(r, h)),
     selectedRace |-> 0,
     selectedStrat |-> [Formation |-> "Draft", Pace |-> "Even"],
     mode |-> "SelectingRace",
     result |-> NilResult,
     liveProgress |-> <<>>,
     currentTurn |-> 0,
     playerLane |-> 2,
     raceStamina |-> 100,
     whipUses |-> 0,
     obedienceCounter |-> 0,
     isDisobedient |-> FALSE,
     lastWhipTurn |-> 0]

\* the opponent generated when the race has n entrants
generateAIHorse(race, n) ==
    LET baseRating == race.MinRating + GoDiv(race.MinRating, 4)
        stat == baseRating + (-10 + (n * 5))
    IN  [Speed |-> stat, Technique |-> stat, Mental |-> stat, Stamina |-> stat, Age |-> 3,
         Fatigue |-> 0, Morale |-> 100, Money |-> 0, FanSupport |-> 0, Wins |-> 0, Races |-> 0]

\* the loop of startRace that fills the field: ai_n enters while there is room
RECURSIVE AddOpponents(_, _)
AddOpponents(race, horses) ==
    IF Len(race.Entrants) < race.MaxEntrants /\ Len(race.Entrants) < 8
    THEN LET n == Len(race.Entrants)
         IN  AddOpponents(AddEntrant(race, n), horses @@ (n :> generateAIHorse(race, n)))
    ELSE [race |-> race, horses |-> horses]

\* the simulator startRace builds for a race, the player's horse and a strategy
NewRaceSimulator(race, h, strategy) ==
    LET field == AddOpponents(AddEntrant(race, PlayerHorseID), PlayerHorseID :> h)
    IN  [race |-> field.race, horses |-> field.horses, strategy |-> strategy,
         playerHorse |-> PlayerHorseID]

\* recalculatePositions: every result the iteration order of progress.Distances allows
recalculatePositions(progress) ==
    {[progress EXCEPT !.Positions = AssignPositions(progress.Positions,
                                        SortByDistance(ids, progress.Distances, 1))] :
        ids \in IterationOrders(DOMAIN progress.Distances)}

\* raceProgress in [0, 0.25] or in [0.75, 1.0]
\* the turn sections without their bounds
IsInTurnExclusive(currentTurn, numTurns) ==
    \/ 4 * currentTurn < numTurns
    \/ 4 * currentTurn > 3 * numTurns /\ currentTurn < numTurns

\* isInTurn: raceProgress in [0, 0.25] or in [0.75, 1.0]
IsInTurn(currentTurn, numTurns) ==
    \/ 4 * currentTurn <= numTurns
    \/ 4 * currentTurn >= 3 * numTurns /\ currentTurn <= numTurns

\* the lane table with nothing for the middle lane on the straights
LaneBonusNoneInTheMiddle(lane, isInTurn) ==
    IF isInTurn
    THEN CASE lane = 0 -> 5
           [] lane = 1 -> 3
           [] lane = 3 -> -2
           [] lane = 4 -> -4
           [] OTHER -> 0
    ELSE IF lane \in {0, 4} THEN -2 ELSE 0

LaneBonus(lane, isInTurn) ==
    IF isInTurn
    THEN CASE lane = 0 -> 5
           [] lane = 1 -> 3
           [] lane = 2 -> 0
           [] lane = 3 -> -2
           [] lane = 4 -> -4
           [] OTHER -> 0
    ELSE CASE lane \in {0, 4} -> -2
           [] lane \in {1, 3} -> 0
           [] lane = 2 -> 3
           [] OTHER -> 0

\* the whip stage: 10% of the distance when a whip was used in the last 2 turns
WhipBoosted(rm, d) ==
    IF rm.lastWhipTurn > 0 /\ rm.currentTurn - rm.lastWhipTurn <= 2
    THEN d + GoDiv(d, 10)
    ELSE d

\* the disobedience stage: 15% off
Penalised(rm, d) ==
    IF rm.isDisobedient THEN d - GoDiv(d * 15, 100) ELSE d

\* the three stages with the penalty taken before the lane adjustment
ModifiedDistancePenaltyFirst(rm, d) ==
    Penalised(rm, WhipBoosted(rm, d))
        + LaneBonus(rm.playerLane, IsInTurn(rm.currentTurn, Len(rm.liveProgress)))

\* the player's distance after the three stages
ModifiedDistance(rm, d) ==
    Penalised(rm, WhipBoosted(rm, d)
                  + LaneBonus(rm.playerLane, IsInTurn(rm.currentTurn, Len(rm.liveProgress))))

\* applyInteractiveModifiers rewriting the snapshot before the current one
applyInteractiveModifiersRetroactive(rm) ==
    IF rm.currentTurn >= Len(rm.liveProgress) \/ rm.result = NilResult
    THEN {rm.liveProgress}
    ELSE LET progress == rm.liveProgress[rm.currentTurn]
             moved == [progress EXCEPT !.Distances[PlayerHorseID] =
                          ModifiedDistance(rm, progress.Distances[PlayerHorseID])]
         IN  {[rm.liveProgress EXCEPT ![rm.currentTurn] = p] :
                 p \in recalculatePositions(moved)}

\* applyInteractiveModifiers: every value of m.liveProgress it can leave.
\* progress is &m.liveProgress[m.currentTurn], a 0-based index.
applyInteractiveModifiers(rm) ==
    IF rm.currentTurn >= Len(rm.liveProgress) \/ rm.result = NilResult
    THEN {rm.liveProgress}
    ELSE LET progress == rm.liveProgress[rm.currentTurn + 1]
             moved == [progress EXCEPT !.Distances[PlayerHorseID] =
                          ModifiedDistance(rm, progress.Distances[PlayerHorseID])]
         IN  {[rm.liveProgress EXCEPT ![rm.currentTurn + 1] = p] :
                 p \in recalculatePositions(moved)}

\* updateObedience clearing the flag one tick early
updateObedienceEarly(rm) ==
    IF rm.isDisobedient
    THEN [rm EXCEPT !.obedienceCounter = rm.obedienceCounter - 1,
                    !.isDisobedient = ~(rm.obedienceCounter - 1 <= 1)]
    ELSE rm

\* updateObedience counting down without ever clearing the flag
updateObedienceKeepingFlag(rm) ==
    IF rm.isDisobedient
    THEN [rm EXCEPT !.obedienceCounter = rm.obedienceCounter - 1]
    ELSE rm

updateObedience(rm) ==
    IF rm.isDisobedient
    THEN [rm EXCEPT !.obedienceCounter = rm.obedienceCounter - 1,
                    !.isDisobedient = ~(rm.obedienceCounter - 1 <= 0)]
    ELSE rm

\* the regeneration without its cap
RegenerateStaminaUncapped(stamina) ==
    IF stamina < 100 THEN stamina + 2 ELSE stamina

\* the stamina the tick gives back
RegenerateStamina(stamina) ==
    IF stamina < 100 THEN Min(stamina + 2, 100) ELSE stamina

\* staminaCost of useWhip
WhipStaminaCost == 25

\* what an accepted whip does (this part is the same in the variants below)
Whipped(rm, h, roll, cost, turn) ==
    LET used == [rm EXCEPT !.raceStamina = rm.raceStamina - cost,
                           !.whipUses = rm.whipUses + 1,
                           !.lastWhipTurn = turn]
    IN  IF roll
        THEN [used EXCEPT !.isDisobedient = TRUE,
                          !.obedienceCounter = Max(5 - GoDiv(h.Mental - 50, 20), 2)]
        ELSE used

\* useWhip without the stamina check
useWhipUnchecked(rm, h, roll) ==
    IF rm.isDisobedient \/ rm.currentTurn - rm.lastWhipTurn < 3
    THEN rm
    ELSE Whipped(rm, h, roll, 25, rm.currentTurn)

\* useWhip recording the turn after the current one
useWhipNextTurn(rm, h, roll) ==
    IF rm.isDisobedient \/ rm.currentTurn - rm.lastWhipTurn < 3 \/ rm.raceStamina < 25
    THEN rm
    ELSE Whipped(rm, h, roll, 25, rm.currentTurn + 1)

\* useWhip with a cooldown of 2 turns
useWhipShortCooldown(rm, h, roll) ==
    IF rm.isDisobedient \/ rm.currentTurn - rm.lastWhipTurn < 2 \/ rm.raceStamina < 25
    THEN rm
    ELSE Whipped(rm, h, roll, 25, rm.currentTurn)

\* useWhip without the minimum of 2 turns
useWhipNoMinimum(rm, h, roll) ==
    IF rm.isDisobedient \/ rm.currentTurn - rm.lastWhipTurn < 3 \/ rm.raceStamina < 25
    THEN rm
    ELSE LET used == Whipped(rm, h, FALSE, 25, rm.currentTurn)
         IN  IF roll
             THEN [used EXCEPT !.isDisobedient = TRUE,
                               !.obedienceCounter = 5 - GoDiv(h.Mental - 50, 20)]
             ELSE used

\* useWhip; roll is the outcome of rand.Float64() < disobedienceChance
useWhip(rm, h, roll) ==
    IF rm.isDisobedient \/ rm.currentTurn - rm.lastWhipTurn < 3
    THEN rm
    ELSE IF rm.raceStamina < WhipStaminaCost
    THEN rm
    ELSE LET used == [rm EXCEPT !.raceStamina = rm.raceStamina - WhipStaminaCost,
                                !.whipUses = rm.whipUses + 1,
                                !.lastWhipTurn = rm.currentTurn]
             mentalModifier == GoDiv(h.Mental - 50, 20)
         IN  IF roll
             THEN [used EXCEPT !.isDisobedient = TRUE,
                               !.obedienceCounter = Max(5 - mentalModifier, 2)]
             ELSE used

\* the RaceTickMsg case advancing whatever the mode and the turn are
HandleRaceTickUnguarded(rm) ==
    LET advanced == [rm EXCEPT !.currentTurn = rm.currentTurn + 1]
    IN  {LET calm == updateObedience([advanced EXCEPT !.liveProgress = lp])
             rested == [calm EXCEPT !.raceStamina = RegenerateStamina(calm.raceStamina)]
         IN  IF rested.currentTurn < Len(rested.liveProgress)
             THEN rested
             ELSE [rested EXCEPT !.mode = "ViewingResult"] :
            lp \in applyInteractiveModifiers(advanced)}

\* the RaceTickMsg case never entering ViewingResult
HandleRaceTickNoResult(rm) ==
    IF rm.mode = "Racing" /\ rm.currentTurn < Len(rm.liveProgress)
    THEN LET advanced == [rm EXCEPT !.currentTurn = rm.currentTurn + 1]
         IN  {LET calm == updateObedience([advanced EXCEPT !.liveProgress = lp])
              IN  [calm EXCEPT !.raceStamina = RegenerateStamina(calm.raceStamina)] :
                 lp \in applyInteractiveModifiers(advanced)}
    ELSE {rm}

\* the RaceTickMsg case of Update: every RaceModel it can return
HandleRaceTick(rm) ==
    IF rm.mode = "Racing" /\ rm.currentTurn < Len(rm.liveProgress)
    THEN LET advanced == [rm EXCEPT !.currentTurn = rm.currentTurn + 1]
         IN  {LET calm == updateObedience([advanced EXCEPT !.liveProgress = lp])
                  rested == [calm EXCEPT !.raceStamina = RegenerateStamina(calm.raceStamina)]
              IN  IF rested.currentTurn < Len(rested.liveProgress)
                  THEN rested
                  ELSE [rested EXCEPT !.mode = "ViewingResult"] :
                 lp \in applyInteractiveModifiers(advanced)}
    ELSE {rm}

\* whether that case schedules the next tick
TickReschedules(rm) ==
    rm.mode = "Racing" /\ rm.currentTurn < Len(rm.liveProgress)
        /\ rm.currentTurn + 1 < Len(rm.liveProgress)

Formations == {"Lead", "Draft", "Mount"}

Paces == {"Fast", "Even", "Conserve"}

\* the results of Simulate for the races and seeds of the model, the strategy
\* NewRaceModel selects and every fatigue the player's horse can have; joining
\* the empty function makes the table an explicit one, built once
SimulateTable ==
    [k \in {SprintRace, MileRace} \X {0, 25, 50, 75, 100}
            \X {[Formation |-> "Draft", Pace |-> "Even"]} \X Seeds |->
        Simulate(NewRaceSimulator(k[1], [LoadedHorse EXCEPT !.Fatigue = k[2]], k[3]), k[4])] @@ <<>>

\* simulator.Simulate() as startRace runs it
SimulateRun(race, h, strategy, seed) ==
    IF /\ <<race, h.Fatigue, strategy, seed>> \in DOMAIN SimulateTable
       /\ \A f \in {"Speed", "Technique", "Mental", "Stamina", "Age"} : h[f] = LoadedHorse[f]
    THEN SimulateTable[<<race, h.Fatigue, strategy, seed>>]
    ELSE Simulate(NewRaceSimulator(race, h, strategy), seed)

\* startRace without the reset of lines 741-747
startRaceKeepingSession(rm, h, seed) ==
    LET race == rm.races[rm.selectedRace + 1]
        paid == [h EXCEPT !.Money = h.Money - GetEntryFee(race)]
    IN  {[rm EXCEPT !.result = [f \in DOMAIN NilResult |-> result[f]],
                    !.liveProgress = result.LiveProgress,
                    !.currentTurn = 0,
                    !.mode = "Racing"] :
            result \in SimulateRun(race, paid, rm.selectedStrat, seed)}

\* startRace past the entry-fee check: every RaceModel it can return
startRace(rm, h, seed) ==
    LET race == rm.races[rm.selectedRace + 1]
        fresh == [rm EXCEPT !.playerLane = 2, !.raceStamina = 100, !.whipUses = 0,
                            !.obedienceCounter = 0, !.isDisobedient = FALSE,
                            !.lastWhipTurn = 0]
        paid == [h EXCEPT !.Money = h.Money - GetEntryFee(race)]
    IN  {[fresh EXCEPT !.result = [f \in DOMAIN NilResult |-> result[f]],
                       !.liveProgress = result.LiveProgress,
                       !.currentTurn = 0,
                       !.mode = "Racing"] :
            result \in SimulateRun(race, paid, rm.selectedStrat, seed)}

\* completeRace: the horse after the result was applied
completeRace(rm, h) ==
    LET credited == [h EXCEPT !.Money = h.Money + rm.result.PrizeMoney,
                              !.FanSupport = h.FanSupport + rm.result.FansGained,
                              !.Races = h.Races + 1,
                              !.Wins = IF rm.result.PlayerRank = 1 THEN h.Wins + 1 ELSE h.Wins]
    IN  ApplyRaceResults(credited, rm.result.PlayerRank, Len(rm.result.Results))

(***************************************************************************)
(* The state: main.AppModel with its RaceModel, the player's horse and the *)
(* messages in flight in the Bubble Tea loop.                              *)
(***************************************************************************)
VARIABLES
    currentView,   \* AppModel.currentView
    raceModel,     \* AppModel.race
    playerHorse,   \* gameState.PlayerHorse
    availableRaces, \* AppModel.availableRaces
    ticks,         \* RaceTickMsg values scheduled and not yet delivered
    navs,          \* NavigationMsg{MainMenuView} values not yet delivered
    simulated,     \* history: LiveProgress as the last Simulate returned it
    touched,       \* history: a lane move or an accepted whip happened in this race
    applied,       \* history: times completeRace applied the result of the last race started
    worn,          \* history: the last race started from a live session a race had used
    inputsLeft,    \* environment: lane moves and whips the player still makes
    racesLeft,     \* environment: races the player still starts in the session
    quitting,      \* AppModel.quitting
    call           \* a function of the race core applied on its own: inputs and result

vars == <<currentView, raceModel, playerHorse, availableRaces, ticks, navs,
          simulated, touched, applied, worn, inputsLeft, racesLeft, quitting, call>>

\* what no handler of the race view writes
fixed == <<availableRaces, quitting, call>>

\* no function is being applied on its own
NoCall ==
    [op |-> "none"]

\* what the environment of a session keeps count of
counted == <<inputsLeft, racesLeft>>

\* the state after AppModel.initializeData with the given roster, for a player
\* who makes at most the given numbers of inputs during races and of race starts
InitWith(races, inputs, starts) ==
    /\ currentView = "MainMenuView"
    /\ availableRaces = races
    /\ raceModel = NewRaceModel(LoadedHorse, races)
    /\ playerHorse = LoadedHorse
    /\ ticks = 0
    /\ navs = 0
    /\ simulated = <<>>
    /\ touched = FALSE
    /\ applied = 0
    /\ worn = FALSE
    /\ inputsLeft = inputs
    /\ racesLeft = starts
    /\ quitting = FALSE
    /\ call = NoCall

Init ==
    InitWith(<<SprintRace>>, MaxInputs, MaxRaces)

\* AppModel.handleMenuSelection for the choice "Race"
HandleMenuSelection ==
    /\ currentView = "MainMenuView"
    /\ currentView' = "RaceView"
    /\ raceModel' = NewRaceModel(playerHorse, availableRaces)
    /\ UNCHANGED <<playerHorse, ticks, navs, simulated, touched, applied, worn, fixed>>

\* AppModel.handleNavigation for a NavigationMsg sent by the race view
HandleNavigation ==
    /\ navs > 0
    /\ navs' = navs - 1
    /\ currentView' = "MainMenuView"
    /\ UNCHANGED <<raceModel, playerHorse, ticks, simulated, touched, applied, worn, fixed>>

\* the Cmd returning NavigationMsg{State: MainMenuView}
SendNavigation ==
    /\ navs < MaxPending
    /\ navs' = navs + 1

\* a lane or whip key during the race: new is the RaceModel the handler returns
RaceInput(new) ==
    /\ raceModel' = new
    /\ touched' = (touched \/ new # raceModel)
    /\ UNCHANGED <<applied, worn>>

\* "ctrl+c" in any view: AppModel.Update answers it with handleQuit before the
\* view sees the key
KeyCtrlC ==
    /\ quitting' = TRUE
    /\ UNCHANGED <<currentView, raceModel, playerHorse, availableRaces, ticks, navs,
                   simulated, touched, applied, worn, call>>

\* "ctrl+c", "q" as they reach RaceModel.Update
KeyQuit ==
    /\ currentView = "RaceView"
    /\ IF raceModel.mode = "Racing" THEN UNCHANGED navs ELSE SendNavigation
    /\ UNCHANGED <<currentView, raceModel, playerHorse, ticks, simulated, touched, applied, worn, fixed>>

\* "esc"
KeyEsc ==
    /\ currentView = "RaceView"
    /\ IF raceModel.mode \in {"ViewingResult", "SettingStrategy", "ConfirmingEntry"}
       THEN raceModel' = [raceModel EXCEPT !.mode = "SelectingRace"] /\ UNCHANGED navs
       ELSE SendNavigation /\ UNCHANGED raceModel
    /\ UNCHANGED <<currentView, playerHorse, ticks, simulated, touched, applied, worn, fixed>>

\* "up", "k"
KeyUp ==
    /\ currentView = "RaceView"
    /\ raceModel' =
        CASE raceModel.mode = "SelectingRace" ->
                IF raceModel.selectedRace > 0
                THEN [raceModel EXCEPT !.selectedRace = raceModel.selectedRace - 1]
                ELSE raceModel
          [] raceModel.mode = "SettingStrategy" ->
                [raceModel EXCEPT !.selectedStrat.Formation =
                    CASE raceModel.selectedStrat.Formation = "Lead" -> "Mount"
                      [] raceModel.selectedStrat.Formation = "Draft" -> "Lead"
                      [] raceModel.selectedStrat.Formation = "Mount" -> "Draft"]
          [] OTHER -> raceModel
    /\ UNCHANGED <<currentView, playerHorse, ticks, navs, simulated, touched, applied, worn, fixed>>

\* "down", "j"
KeyDown ==
    /\ currentView = "RaceView"
    /\ raceModel' =
        CASE raceModel.mode = "SelectingRace" ->
                IF raceModel.selectedRace < Len(raceModel.races) - 1
                THEN [raceModel EXCEPT !.selectedRace = raceModel.selectedRace + 1]
                ELSE raceModel
          [] raceModel.mode = "SettingStrategy" ->
                [raceModel EXCEPT !.selectedStrat.Formation =
                    CASE raceModel.selectedStrat.Formation = "Lead" -> "Draft"
                      [] raceModel.selectedStrat.Formation = "Draft" -> "Mount"
                      [] raceModel.selectedStrat.Formation = "Mount" -> "Lead"]
          [] OTHER -> raceModel
    /\ UNCHANGED <<currentView, playerHorse, ticks, navs, simulated, touched, applied, worn, fixed>>

\* the "left", "h" case of Update
\* the "left" case without the bound of line 157
MoveLeftPastRail(rm) ==
    IF rm.mode = "Racing" /\ ~rm.isDisobedient
    THEN [rm EXCEPT !.playerLane = rm.playerLane - 1]
    ELSE rm

MoveLeft(rm) ==
    CASE rm.mode = "SettingStrategy" ->
            [rm EXCEPT !.selectedStrat.Pace =
                CASE rm.selectedStrat.Pace = "Fast" -> "Conserve"
                  [] rm.selectedStrat.Pace = "Even" -> "Fast"
                  [] rm.selectedStrat.Pace = "Conserve" -> "Even"]
      [] rm.mode = "Racing" ->
            IF rm.playerLane > 0 /\ ~rm.isDisobedient
            THEN [rm EXCEPT !.playerLane = rm.playerLane - 1]
            ELSE rm
      [] OTHER -> rm

\* the "right" case moving the horse whether it obeys or not
MoveRightUnchecked(rm) ==
    IF rm.mode = "Racing" /\ rm.playerLane < 4
    THEN [rm EXCEPT !.playerLane = rm.playerLane + 1]
    ELSE rm

\* the "right" case moving the horse in every mode
MoveRightInAnyMode(rm) ==
    IF rm.playerLane < 4 /\ ~rm.isDisobedient
    THEN [rm EXCEPT !.playerLane = rm.playerLane + 1]
    ELSE rm

\* the "right", "l" case of Update
MoveRight(rm) ==
    CASE rm.mode = "SettingStrategy" ->
            [rm EXCEPT !.selectedStrat.Pace =
                CASE rm.selectedStrat.Pace = "Fast" -> "Even"
                  [] rm.selectedStrat.Pace = "Even" -> "Conserve"
                  [] rm.selectedStrat.Pace = "Conserve" -> "Fast"]
      [] rm.mode = "Racing" ->
            IF rm.playerLane < 4 /\ ~rm.isDisobedient
            THEN [rm EXCEPT !.playerLane = rm.playerLane + 1]
            ELSE rm
      [] OTHER -> rm

KeyLeft ==
    /\ currentView = "RaceView"
    /\ IF raceModel.mode = "Racing"
       THEN RaceInput(MoveLeft(raceModel))
       ELSE raceModel' = MoveLeft(raceModel) /\ UNCHANGED <<touched, applied, worn>>
    /\ UNCHANGED <<currentView, playerHorse, ticks, navs, simulated, fixed>>

KeyRight ==
    /\ currentView = "RaceView"
    /\ IF raceModel.mode = "Racing"
       THEN RaceInput(MoveRight(raceModel))
       ELSE raceModel' = MoveRight(raceModel) /\ UNCHANGED <<touched, applied, worn>>
    /\ UNCHANGED <<currentView, playerHorse, ticks, navs, simulated, fixed>>

\* "w": the whip, with the outcome of the disobedience roll
KeyWhip ==
    /\ currentView = "RaceView"
    /\ IF raceModel.mode = "Racing"
       THEN \E roll \in BOOLEAN : RaceInput(useWhip(raceModel, playerHorse, roll))
       ELSE UNCHANGED <<raceModel, touched, applied, worn>>
    /\ UNCHANGED <<currentView, playerHorse, ticks, navs, simulated, fixed>>

\* "enter", " "
KeyEnter ==
    /\ currentView = "RaceView"
    /\ CASE raceModel.mode = "SelectingRace" ->
              /\ raceModel' = IF Len(raceModel.races) > 0
                              THEN [raceModel EXCEPT !.mode = "SettingStrategy"]
                              ELSE raceModel
              /\ UNCHANGED <<playerHorse, ticks, navs, simulated, touched, applied, worn, fixed>>
         [] raceModel.mode = "SettingStrategy" ->
              /\ raceModel' = [raceModel EXCEPT !.mode = "ConfirmingEntry"]
              /\ UNCHANGED <<playerHorse, ticks, navs, simulated, touched, applied, worn, fixed>>
         [] raceModel.mode = "ConfirmingEntry" ->
              LET race == raceModel.races[raceModel.selectedRace + 1]
              IN  IF playerHorse.Money >= GetEntryFee(race)
                  THEN /\ \E seed \in Seeds : \E new \in startRace(raceModel, playerHorse, seed) :
                            /\ raceModel' = new
                            /\ simulated' = new.liveProgress
                       /\ playerHorse' = [playerHorse EXCEPT !.Money = playerHorse.Money - GetEntryFee(race)]
                       /\ ticks' = ticks + 1
                       /\ touched' = FALSE
                       /\ applied' = 0
                       /\ worn' = (raceModel.whipUses > 0
                                      /\ (raceModel.isDisobedient \/ raceModel.raceStamina < 100))
                       /\ UNCHANGED <<navs, fixed>>
                  ELSE UNCHANGED <<raceModel, playerHorse, ticks, navs, simulated, touched, applied, worn, fixed>>
         [] raceModel.mode = "ViewingResult" ->
              /\ playerHorse' = completeRace(raceModel, playerHorse)
              /\ SendNavigation
              /\ applied' = applied + 1
              /\ UNCHANGED <<raceModel, ticks, simulated, touched, worn, fixed>>
         [] raceModel.mode = "Racing" ->
              /\ \E roll \in BOOLEAN : RaceInput(useWhip(raceModel, playerHorse, roll))
              /\ UNCHANGED <<playerHorse, ticks, navs, simulated, fixed>>
    /\ UNCHANGED currentView

\* the delivery of a RaceTickMsg: it goes to the view that is current
RaceTick ==
    /\ ticks > 0
    /\ IF currentView = "RaceView"
       THEN /\ \E new \in HandleRaceTick(raceModel) : raceModel' = new
            /\ ticks' = IF TickReschedules(raceModel) THEN ticks ELSE ticks - 1
       ELSE /\ ticks' = ticks - 1
            /\ UNCHANGED raceModel
    /\ UNCHANGED <<currentView, playerHorse, navs, simulated, touched, applied, worn, fixed>>

\* The environment: a key that changes the race in progress is one of the
\* player's inputs.
Counted ==
    LET input == raceModel.mode = "Racing" /\ raceModel' # raceModel
    IN  /\ input => inputsLeft > 0
        /\ inputsLeft' = IF input THEN inputsLeft - 1 ELSE inputsLeft
        /\ UNCHANGED racesLeft

\* an entry the horse can pay for is on the confirmation screen
Affordable ==
    /\ raceModel.mode = "ConfirmingEntry"
    /\ playerHorse.Money >= GetEntryFee(raceModel.races[raceModel.selectedRace + 1])

\* The player confirms an entry the horse can pay for only while there are
\* starts left, and steers and whips in the first race of the session only.
Started ==
    LET start == raceModel.mode = "ConfirmingEntry" /\ raceModel'.mode = "Racing"
    IN  /\ racesLeft' = IF start THEN racesLeft - 1 ELSE racesLeft
        /\ inputsLeft' = IF start /\ racesLeft < MaxRaces THEN 0 ELSE inputsLeft

\* The playback sessions: the player keeps the default strategy, steers and
\* whips during the race and stays in the race view until the result is shown.
Next ==
    \/ HandleMenuSelection /\ UNCHANGED counted
    \/ HandleNavigation /\ UNCHANGED counted
    \/ KeyQuit /\ UNCHANGED counted
    \/ raceModel.mode # "Racing" /\ KeyEsc /\ UNCHANGED counted
    \/ raceModel.mode # "SettingStrategy" /\ KeyLeft /\ Counted
    \/ raceModel.mode # "SettingStrategy" /\ KeyRight /\ Counted
    \/ KeyWhip /\ Counted
    \/ raceModel.mode = "Racing" /\ KeyEnter /\ Counted
    \/ raceModel.mode # "Racing" /\ (Affordable => racesLeft > 0) /\ KeyEnter /\ Started
    \/ RaceTick /\ UNCHANGED counted

Spec == Init /\ [][Next]_vars

\* The whip sessions: a race long enough to exhaust the horse and a player
\* who whips and whose lane keys never move the horse.
InitWhip ==
    InitWith(<<MileRace>>, MaxWhips, MaxRaces)

NextWhip ==
    \/ HandleMenuSelection /\ UNCHANGED counted
    \/ HandleNavigation /\ UNCHANGED counted
    \/ KeyQuit /\ UNCHANGED counted
    \/ raceModel.mode # "Racing" /\ KeyEsc /\ UNCHANGED counted
    \/ raceModel.mode # "SettingStrategy" /\ KeyLeft /\ UNCHANGED <<raceModel, counted>>
    \/ raceModel.mode # "SettingStrategy" /\ KeyRight /\ UNCHANGED <<raceModel, counted>>
    \/ KeyWhip /\ Counted
    \/ raceModel.mode = "Racing" /\ KeyEnter /\ Counted
    \/ raceModel.mode # "Racing" /\ (Affordable => racesLeft > 0) /\ KeyEnter /\ Started
    \/ RaceTick /\ UNCHANGED counted

SpecWhip == InitWhip /\ [][NextWhip]_vars

\* The lane sessions: a player who steers up to the rail and to the outside
\* and whose whip keys are never accepted.
InitLanes ==
    InitWith(<<SprintRace>>, MaxLaneMoves, MaxRaces)

NextLanes ==
    \/ HandleMenuSelection /\ UNCHANGED counted
    \/ HandleNavigation /\ UNCHANGED counted
    \/ KeyQuit /\ UNCHANGED counted
    \/ raceModel.mode # "Racing" /\ KeyEsc /\ UNCHANGED counted
    \/ raceModel.mode # "SettingStrategy" /\ KeyLeft /\ Counted
    \/ raceModel.mode # "SettingStrategy" /\ KeyRight /\ Counted
    \/ KeyWhip /\ UNCHANGED <<raceModel, counted>>
    \/ raceModel.mode = "Racing" /\ KeyEnter /\ UNCHANGED <<raceModel, counted>>
    \/ raceModel.mode # "Racing" /\ (Affordable => racesLeft > 0) /\ KeyEnter /\ Started
    \/ RaceTick /\ UNCHANGED counted

SpecLanes == InitLanes /\ [][NextLanes]_vars

\* The playback on its own, from the entry into Racing: startRace has just
\* returned for the sprint, the first RaceTickMsg is scheduled, no navigation
\* is in flight and the race view is current.
InitPlayback ==
    \E race \in {SprintRace} : \E seed \in Seeds :
        LET confirming == [NewRaceModel(LoadedHorse, <<race>>) EXCEPT
                              !.mode = "ConfirmingEntry"]
        IN  \E new \in startRace(confirming, LoadedHorse, seed) :
                /\ currentView = "RaceView"
                /\ availableRaces = <<race>>
                /\ raceModel = new
                /\ playerHorse = [LoadedHorse EXCEPT
                                     !.Money = LoadedHorse.Money - GetEntryFee(race)]
                /\ ticks = 1
                /\ navs = 0
                /\ simulated = new.liveProgress
                /\ touched = FALSE
                /\ applied = 0
                /\ worn = FALSE
                /\ inputsLeft = MaxInputs
                /\ racesLeft = MaxRaces - 1
                /\ quitting = FALSE
                /\ call = NoCall

\* the player whips and steers while the ticks arrive
NextPlayback ==
    \/ KeyLeft /\ Counted
    \/ KeyRight /\ Counted
    \/ KeyWhip /\ Counted
    \/ raceModel.mode = "Racing" /\ KeyEnter /\ Counted
    \/ RaceTick /\ UNCHANGED counted

\* The timer of tea.Tick fires and the message loop delivers the RaceTickMsg:
\* this is WF_vars(RaceTick /\ UNCHANGED counted) written out, the delivery
\* being enabled exactly when a tick is scheduled (ticks > 0).
TickDelivered ==
    []<>(ticks = 0) \/ []<><<RaceTick /\ UNCHANGED counted>>_vars

SpecPlayback == InitPlayback /\ [][NextPlayback]_vars /\ TickDelivered

\* The sessions of a player who chooses between two races and presses any key
\* at any moment, the lane and whip keys only at moments when the horse does
\* not answer them; the program stops taking messages once it quits.
InitKeys ==
    InitWith(<<SprintRace, MileRace>>, 0, MaxRaces)

NextKeys ==
    \/ ~quitting /\ HandleMenuSelection /\ UNCHANGED counted
    \/ ~quitting /\ HandleNavigation /\ UNCHANGED counted
    \/ ~quitting /\ KeyCtrlC /\ UNCHANGED counted
    \/ ~quitting /\ KeyQuit /\ UNCHANGED counted
    \/ ~quitting /\ KeyEsc /\ UNCHANGED counted
    \/ ~quitting /\ raceModel.mode # "SettingStrategy" /\ KeyUp /\ UNCHANGED counted
    \/ ~quitting /\ raceModel.mode # "SettingStrategy" /\ KeyDown /\ UNCHANGED counted
    \/ ~quitting /\ raceModel.mode # "SettingStrategy" /\ KeyLeft /\ Counted
    \/ ~quitting /\ raceModel.mode # "SettingStrategy" /\ KeyRight /\ Counted
    \/ ~quitting /\ KeyWhip /\ Counted
    \/ ~quitting /\ raceModel.mode = "Racing" /\ KeyEnter /\ Counted
    \/ ~quitting /\ raceModel.mode # "Racing" /\ (Affordable => racesLeft > 0)
          /\ KeyEnter /\ Started
    \/ ~quitting /\ RaceTick /\ UNCHANGED counted

SpecKeys == InitKeys /\ [][NextKeys]_vars

(***************************************************************************)
(* The functions of the race core applied on their own: the initial state  *)
(* holds the inputs of one call, the action of the function computes it.   *)
(***************************************************************************)
\* the session, which stays in the main menu during such a call
session == <<currentView, raceModel, playerHorse, availableRaces, ticks, navs,
             simulated, touched, applied, worn, inputsLeft, racesLeft, quitting>>

Strategies ==
    [Formation : Formations, Pace : Paces]

\* the calls of rs.applyStrategyModifier(baseSpeed, turn, totalTurns)
StrategyCalls ==
    {c \in [op : {"applyStrategyModifier"}, strategy : Strategies, baseSpeed : 1..MaxBaseSpeed,
            turn : 1..16, totalTurns : {10, 16}, done : {FALSE}, out : {0}] :
        c.turn <= c.totalTurns}

ApplyStrategyModifier ==
    /\ call.op = "applyStrategyModifier"
    /\ ~call.done
    /\ call' = [call EXCEPT !.done = TRUE,
                            !.out = applyStrategyModifier(call.strategy, call.baseSpeed,
                                                          call.turn, call.totalTurns)]
    /\ UNCHANGED session

\* a race of the sprint in progress in which every entrant of the snapshots
\* has the simulated distance d
RaceAt(currentTurn, lane, lastWhipTurn, isDisobedient, d) ==
    LET rs == NewRaceSimulator(SprintRace, LoadedHorse, [Formation |-> "Draft", Pace |-> "Even"])
        ids == {rs.race.Entrants[i] : i \in 1..Len(rs.race.Entrants)}
        positions == [h \in ids |-> CHOOSE i \in 1..Len(rs.race.Entrants) : rs.race.Entrants[i] = h]
    IN  [NewRaceModel(LoadedHorse, <<SprintRace>>) EXCEPT
            !.mode = "Racing",
            !.result = [NilResult EXCEPT !.PlayerRank = 1],
            !.liveProgress = [t \in 1..NumTurns(SprintRace.Distance) |->
                                 [Turn |-> t, Positions |-> positions, Distances |-> [h \in ids |-> d]]],
            !.currentTurn = currentTurn,
            !.playerLane = lane,
            !.lastWhipTurn = lastWhipTurn,
            !.whipUses = IF lastWhipTurn > 0 THEN 1 ELSE 0,
            !.isDisobedient = isDisobedient,
            !.obedienceCounter = IF isDisobedient THEN 5 - (currentTurn - lastWhipTurn - 1) ELSE 0]

\* the calls of m.applyInteractiveModifiers() in the tick of turn t: every lane,
\* no whip yet or a whip at an earlier turn w >= 3, an obedient horse or one
\* whose 5 ticks of disobedience are not over, in the turn and the straight
\* sections
ModifierCalls ==
    {[op |-> "applyInteractiveModifiers",
      rm |-> RaceAt(c[1], c[2], c[3], c[4], c[5]),
      done |-> FALSE, out |-> {}] :
        c \in {c \in (1..(NumTurns(SprintRace.Distance) - 1)) \X (0..4)
                      \X (0..NumTurns(SprintRace.Distance)) \X BOOLEAN \X (0..MaxDistance) :
                  /\ c[3] = 0 \/ (c[3] >= 3 /\ c[3] < c[1])
                  /\ c[4] => c[3] > 0 /\ c[1] - c[3] <= 5}}

ApplyInteractiveModifiers ==
    /\ call.op = "applyInteractiveModifiers"
    /\ ~call.done
    /\ call' = [call EXCEPT !.done = TRUE, !.out = applyInteractiveModifiers(call.rm)]
    /\ UNCHANGED session

\* the runs of Simulate, turn by turn: st holds the distances and the stamina
\* counters after call.turn turns, gated tells whether the stamina check of
\* the last turn failed for an entrant
SimulateCalls ==
    {[op |-> "Simulate", rs |-> NewRaceSimulator(race, h, strategy), seed |-> seed,
      turn |-> 0, st |-> SimulateStart(NewRaceSimulator(race, h, strategy)), gated |-> FALSE] :
        race \in {SprintRace, MileRace, MaidenStakes},
        h \in {LoadedHorse, TiredHorse, TrainedHorse},
        strategy \in Strategies, seed \in Seeds}

\* one pass of the loop `for turn := 1; turn <= numTurns; turn++`
SimulateNextTurn ==
    /\ call.op = "Simulate"
    /\ call.turn < NumTurns(call.rs.race.Distance)
    /\ LET numTurns == NumTurns(call.rs.race.Distance)
           turn == call.turn + 1
       IN  call' = [call EXCEPT
                !.turn = turn,
                !.st = SimulateTurn(call.rs, call.seed, turn, numTurns, call.st),
                !.gated = \E i \in 1..Len(call.rs.race.Entrants) :
                             call.st.stamina[call.rs.race.Entrants[i]]
                                 < GoDiv(Movement(call.rs, call.seed, turn, numTurns, i), 2)]
    /\ UNCHANGED session

\* grade and prize of the races of the default roster, and a race whose prize
\* is not a multiple of 8
PayoutRaces ==
    {[MaidenStakes EXCEPT !.Grade = gp[1], !.Prize = gp[2]] :
        gp \in {<<0, 5000>>, <<1, 15000>>, <<2, 30000>>, <<3, 50000>>, <<3, 75000>>,
                <<4, 100000>>, <<1, 12345>>}}

\* the calls of race.GetPrizeForPosition and race.GetFansForPosition at the
\* end of Simulate
PayoutCalls ==
    [op : {"Payout"}, race : PayoutRaces, position : 0..MaxRank, done : {FALSE},
     prize : {0}, fans : {0}]

Payout ==
    /\ call.op = "Payout"
    /\ ~call.done
    /\ call' = [call EXCEPT !.done = TRUE,
                            !.prize = GetPrizeForPosition(call.race, call.position),
                            !.fans = GetFansForPosition(call.race, call.position)]
    /\ UNCHANGED session

\* the simulators game.NewRaceSimulator can be handed: the ones startRace
\* builds for the sprint, for the mile and for a race of 900 m, one for a race
\* of distance 0, one for a race nobody entered, and one whose player is not
\* among the entrants
Simulators ==
    LET strategy == [Formation |-> "Draft", Pace |-> "Even"]
        sprint == NewRaceSimulator(SprintRace, LoadedHorse, strategy)
    IN  {sprint,
         NewRaceSimulator(MileRace, LoadedHorse, strategy),
         NewRaceSimulator([SprintRace EXCEPT !.Distance = 900], LoadedHorse, strategy),
         NewRaceSimulator([SprintRace EXCEPT !.Distance = 0], LoadedHorse, strategy),
         [race |-> SprintRace, horses |-> (PlayerHorseID :> LoadedHorse),
          strategy |-> strategy, playerHorse |-> PlayerHorseID],
         [sprint EXCEPT !.playerHorse = FieldSize]}

\* the calls of simulator.Simulate()
RunCalls ==
    [op : {"Run"}, rs : Simulators, seed : Seeds, done : {FALSE}, out : {{}}]

Run ==
    /\ call.op = "Run"
    /\ ~call.done
    /\ call' = [call EXCEPT !.done = TRUE, !.out = Simulate(call.rs, call.seed)]
    /\ UNCHANGED session

\* horses over the attribute range of the game: a stat of an AI horse of an
\* open race is negative, a trained stat is above 100, stamina and fatigue
\* take both ends of their range, and the age takes every factor of
\* GetAgePerformanceFactor
SpeedHorses ==
    {[LoadedHorse EXCEPT !.Speed = a[1], !.Technique = a[2], !.Mental = a[2],
                         !.Stamina = a[3], !.Fatigue = a[4], !.Age = a[5]] :
        a \in {-5, 0, 4, 60, 130} \X {-5, 0, 50} \X {0, 40, 100} \X {0, 50, 100}
                  \X (2..11)}

\* the calls of calculateHorseSpeed in a race of ten turns: the first turn,
\* the last turn of the first half, the first of the second half, the last
SpeedCalls ==
    [op : {"Speed"}, horse : SpeedHorses, turn : {1, 5, 6, 10}, totalTurns : {10},
     done : {FALSE}, out : {0}]

CalculateHorseSpeed ==
    /\ call.op = "Speed"
    /\ ~call.done
    /\ call' = [call EXCEPT !.done = TRUE,
                            !.out = calculateHorseSpeed(call.horse, call.turn,
                                                        call.totalTurns)]
    /\ UNCHANGED session

\* horses from rested and content to exhausted and sullen, with a mental stat
\* from 0 to a trained one
ChanceHorses ==
    {[LoadedHorse EXCEPT !.Fatigue = a[1], !.Morale = a[2], !.Mental = a[3]] :
        a \in {0, 25, 50, 100} \X {0, 20, 50, 100} \X {0, 5, 50, 110, 250}}

\* the calls of horse.CalculateDisobedienceChance in useWhip, with the count
\* of whips after the accepted one; out is the chance at that count and next
\* the chance one whip later
ChanceCalls ==
    [op : {"Chance"}, horse : ChanceHorses, whipUses : 1..MaxWhips, done : {FALSE},
     out : {0}, next : {0}]

DisobedienceChance ==
    /\ call.op = "Chance"
    /\ ~call.done
    /\ call' = [call EXCEPT
                   !.done = TRUE,
                   !.out = CalculateDisobedienceChance(call.horse, call.whipUses),
                   !.next = CalculateDisobedienceChance(call.horse, call.whipUses + 1)]
    /\ UNCHANGED session

\* a race in progress of numTurns snapshots with an obedient horse that was
\* not whipped
SteadyRaceAt(numTurns, currentTurn, lane, d) ==
    LET rm == RaceAt(currentTurn, lane, 0, FALSE, d)
    IN  [rm EXCEPT !.liveProgress =
            [t \in 1..numTurns |-> [rm.liveProgress[1] EXCEPT !.Turn = t]]]

\* the calls of m.applyInteractiveModifiers() that apply the lane adjustment
\* alone, in the sprint and in the mile, at every turn that has a snapshot to
\* rewrite and in every lane
LaneCalls ==
    {[op |-> "Lane", rm |-> SteadyRaceAt(c[1], c[2], c[3], MaxDistance),
      done |-> FALSE, out |-> {}] :
        c \in {c \in {NumTurns(SprintRace.Distance), NumTurns(MileRace.Distance)}
                      \X (1..NumTurns(MileRace.Distance)) \X (0..4) : c[2] < c[1]}}

ApplyLaneAdjustment ==
    /\ call.op = "Lane"
    /\ ~call.done
    /\ call' = [call EXCEPT !.done = TRUE, !.out = applyInteractiveModifiers(call.rm)]
    /\ UNCHANGED session

\* horses with a mental stat from 0 to a fully trained one, on both sides of
\* every step of (horse.Mental - 50) / 20
WhipHorses ==
    {[LoadedHorse EXCEPT !.Mental = mental] :
        mental \in {0, 10, 11, 30, 31, 50, 69, 70, 109, 110, 250}}

\* the calls of m.useWhip() that are accepted: an obedient horse with full
\* stamina, three turns after the start, with either outcome of the roll
WhipCalls ==
    [op : {"Whip"}, rm : {SteadyRaceAt(NumTurns(SprintRace.Distance), 3, 2, MaxDistance)},
     horse : WhipHorses, roll : BOOLEAN, done : {FALSE}, out : {<<>>}]

UseWhip ==
    /\ call.op = "Whip"
    /\ ~call.done
    /\ call' = [call EXCEPT !.done = TRUE,
                            !.out = useWhip(call.rm, call.horse, call.roll)]
    /\ UNCHANGED session

Calls ==
    StrategyCalls \cup LaneCalls \cup ModifierCalls \cup SimulateCalls \cup PayoutCalls \cup RunCalls
        \cup SpeedCalls \cup ChanceCalls \cup WhipCalls

InitFunctions ==
    /\ currentView = "MainMenuView"
    /\ availableRaces = <<SprintRace>>
    /\ raceModel = NewRaceModel(LoadedHorse, availableRaces)
    /\ playerHorse = LoadedHorse
    /\ ticks = 0
    /\ navs = 0
    /\ simulated = <<>>
    /\ touched = FALSE
    /\ applied = 0
    /\ worn = FALSE
    /\ inputsLeft = 0
    /\ racesLeft = 0
    /\ quitting = FALSE
    /\ call \in Calls

NextFunctions ==
    \/ ApplyStrategyModifier
    \/ ApplyInteractiveModifiers
    \/ SimulateNextTurn
    \/ Payout
    \/ Run
    \/ CalculateHorseSpeed
    \/ DisobedienceChance
    \/ ApplyLaneAdjustment
    \/ UseWhip

SpecFunctions == InitFunctions /\ [][NextFunctions]_vars

(***************************************************************************)
(* Ranking (updatePositions, recalculatePositions).                        *)
(***************************************************************************)
\* the snapshots of the race as the race view holds them
Snapshots ==
    raceModel.liveProgress

\* a snapshot the playback has rewritten: it differs from what Simulate returned
Rewritten(t) ==
    /\ t \in 1..Len(Snapshots)
    /\ Len(simulated) = Len(Snapshots)
    /\ Snapshots[t] # simulated[t]

\* C1: in every snapshot, as Simulate returned it and as the playback ticks
\* rewrote it, the ranks of the N entrants are exactly the numbers 1..N.
RanksArePermutation ==
    \A t \in 1..Len(Snapshots) :
        LET positions == Snapshots[t].Positions
        IN  /\ Cardinality(DOMAIN positions) = FieldSize
            /\ {positions[h] : h \in DOMAIN positions} = 1..FieldSize

\* a race in progress in which a tick rewrote a snapshot after the player acted
RanksAfterRewrite ==
    /\ raceModel.mode = "Racing"
    /\ touched
    /\ \E t \in 1..Len(Snapshots) : Rewritten(t)

\* C2: in every snapshot the ranks follow the distances: the entrant that is
\* strictly further has the strictly smaller rank, so rank 1 is an entrant of
\* the greatest distance.
RanksFollowDistance ==
    \A t \in 1..Len(Snapshots) :
        LET positions == Snapshots[t].Positions
            distances == Snapshots[t].Distances
        IN  /\ \A a, b \in DOMAIN distances :
                  distances[a] > distances[b] => positions[a] < positions[b]
            /\ \A a, b \in DOMAIN distances :
                  positions[a] = 1 => distances[a] >= distances[b]

\* the player's input made the horse overtake: in a rewritten snapshot the
\* player is further than an entrant that Simulate had put in front, and is
\* ranked before it
RankChangedByInput ==
    \E t \in 1..Len(Snapshots) : \E h \in DOMAIN Snapshots[t].Distances :
        /\ Rewritten(t)
        /\ simulated[t].Distances[h] > simulated[t].Distances[PlayerHorseID]
        /\ Snapshots[t].Distances[h] < Snapshots[t].Distances[PlayerHorseID]
        /\ Snapshots[t].Positions[PlayerHorseID] < Snapshots[t].Positions[h]

\* C3: ties are broken by the order in which the entrants entered the race,
\* so equal distances always give the same ranks.
TiesByInsertionOrder ==
    \A t \in 1..Len(Snapshots) :
        LET positions == Snapshots[t].Positions
            distances == Snapshots[t].Distances
        IN  \A a, b \in DOMAIN distances :
                a < b /\ distances[a] = distances[b] => positions[a] < positions[b]

(***************************************************************************)
(* The whip and disobedience (useWhip, updateObedience, the lane keys).    *)
(***************************************************************************)
\* the three conditions of an accepted whip
WhipConditions(rm) ==
    /\ ~rm.isDisobedient
    /\ rm.currentTurn - rm.lastWhipTurn >= 3
    /\ rm.raceStamina >= 25

\* the answers of the whip handler to a whip key in the current state
WhipOutcomes ==
    {useWhip(raceModel, playerHorse, roll) : roll \in BOOLEAN}

RaceInProgress ==
    currentView = "RaceView" /\ raceModel.mode = "Racing"

\* C4: a whip is accepted only when the horse obeys, 3 turns have passed since
\* the last whip and the live stamina is at least 25; when one of the three
\* fails the whip changes nothing: whipUses, lastWhipTurn, live stamina, the
\* disobedience flag and its counter keep their values.
WhipRejectedUnlessAllowed ==
    RaceInProgress /\ ~WhipConditions(raceModel) =>
        \A after \in WhipOutcomes :
            /\ after.whipUses = raceModel.whipUses
            /\ after.lastWhipTurn = raceModel.lastWhipTurn
            /\ after.raceStamina = raceModel.raceStamina
            /\ after.isDisobedient = raceModel.isDisobedient
            /\ after.obedienceCounter = raceModel.obedienceCounter

\* a whip that only the stamina refuses: the horse obeys, the cooldown is over
\* and four whips have left less than 25
WhipRefusedForStamina ==
    /\ RaceInProgress
    /\ ~raceModel.isDisobedient
    /\ raceModel.currentTurn - raceModel.lastWhipTurn >= 3
    /\ raceModel.raceStamina < 25
    /\ raceModel.whipUses = 4

\* C5: when the three conditions hold the whip debits exactly 25 live stamina,
\* adds exactly 1 to whipUses and sets lastWhipTurn to the current turn,
\* whatever the disobedience roll gives.
WhipAcceptedEffect ==
    RaceInProgress /\ WhipConditions(raceModel) =>
        \A after \in WhipOutcomes :
            /\ after.raceStamina = raceModel.raceStamina - 25
            /\ after.whipUses = raceModel.whipUses + 1
            /\ after.lastWhipTurn = raceModel.currentTurn

\* the race right after the first whip, landed at turn 5 with full stamina and
\* followed by disobedience
FirstWhipAtTurnFive ==
    /\ RaceInProgress
    /\ raceModel.currentTurn = 5
    /\ raceModel.lastWhipTurn = 5
    /\ raceModel.whipUses = 1
    /\ raceModel.raceStamina = 75
    /\ raceModel.isDisobedient

\* C6: in every reachable state lastWhipTurn <= currentTurn, whipUses = 0
\* exactly when lastWhipTurn = 0, and 3 * whipUses <= lastWhipTurn: accepted
\* whips of one race are at least 3 turns apart.
WhipSpacing ==
    /\ raceModel.lastWhipTurn <= raceModel.currentTurn
    /\ raceModel.whipUses = 0 <=> raceModel.lastWhipTurn = 0
    /\ 3 * raceModel.whipUses <= raceModel.lastWhipTurn

\* two whips as close as the cooldown lets them be, at turns 3 and 6
TwoWhipsThreeApart ==
    /\ RaceInProgress
    /\ raceModel.whipUses = 2
    /\ raceModel.lastWhipTurn = 6

\* C7: while the disobedience counter has not reached zero every lane key and
\* every whip key is rejected: lane, whipUses, lastWhipTurn and live stamina
\* are left as they were.
InputsRejectedWhileDisobedient ==
    RaceInProgress /\ raceModel.obedienceCounter > 0 =>
        \A after \in WhipOutcomes \cup {MoveLeft(raceModel), MoveRight(raceModel)} :
            /\ after.playerLane = raceModel.playerLane
            /\ after.whipUses = raceModel.whipUses
            /\ after.lastWhipTurn = raceModel.lastWhipTurn
            /\ after.raceStamina = raceModel.raceStamina

\* a disobedient horse in a lane with room on both sides, with the stamina for
\* a whip: only the disobedience stands in the way of the lane keys
DisobedientWithRoom ==
    /\ RaceInProgress
    /\ raceModel.isDisobedient
    /\ raceModel.obedienceCounter > 0
    /\ raceModel.playerLane \in 1..3
    /\ raceModel.raceStamina >= 25

\* C8: while the horse is disobedient every tick of the race takes exactly 1
\* off the counter and clears the flag exactly when the counter reaches zero,
\* and no other step of the race changes the counter or the flag.
ObedienceCountdown ==
    [][RaceInProgress /\ raceModel.isDisobedient /\ currentView' = "RaceView" =>
          IF raceModel'.currentTurn = raceModel.currentTurn + 1
          THEN /\ raceModel'.obedienceCounter = raceModel.obedienceCounter - 1
               /\ raceModel'.isDisobedient = (raceModel'.obedienceCounter > 0)
          ELSE /\ raceModel'.obedienceCounter = raceModel.obedienceCounter
               /\ raceModel'.isDisobedient = raceModel.isDisobedient]_vars

\* four ticks after the whip that set the counter to 5, the counter is at 1
CountdownNearlyOver ==
    /\ RaceInProgress
    /\ raceModel.isDisobedient
    /\ raceModel.obedienceCounter = 1
    /\ raceModel.currentTurn = raceModel.lastWhipTurn + 4

(***************************************************************************)
(* Playback against the simulated race, and the payout.                    *)
(***************************************************************************)
\* a race started and not yet left, whose snapshots can be set against the
\* ones Simulate returned
RaceOnScreen ==
    /\ raceModel.mode \in {"Racing", "ViewingResult"}
    /\ Len(Snapshots) > 0
    /\ Len(simulated) = Len(Snapshots)

\* C9 as stated: without any input of the player, after every tick the
\* player's distance and rank in every snapshot are the ones Simulate produced.
NoInputReproducesSimulate ==
    RaceOnScreen /\ ~touched =>
        \A t \in 1..Len(Snapshots) :
            /\ Snapshots[t].Distances[PlayerHorseID] = simulated[t].Distances[PlayerHorseID]
            /\ Snapshots[t].Positions[PlayerHorseID] = simulated[t].Positions[PlayerHorseID]

\* the k-th tick of a race of T turns falls in a straight section
InStraight(k, T) ==
    4 * k > T /\ 4 * k < 3 * T

\* C9 as amended: without any input of the player the horse stays in lane 2,
\* and after every tick the snapshots the ticks have passed (snapshot k + 1
\* for tick k) hold the player's simulated distance plus the lane adjustment
\* of lane 2, 3 for a tick in a straight section and 0 for one in a turn
\* section; every other distance is the one Simulate produced.
NoInputAddsMiddleLaneBonus ==
    RaceOnScreen /\ ~touched =>
        \A t \in 1..Len(Snapshots) : \A h \in DOMAIN Snapshots[t].Distances :
            Snapshots[t].Distances[h] =
                simulated[t].Distances[h]
                + IF /\ h = PlayerHorseID
                     /\ t >= 2
                     /\ t <= raceModel.currentTurn + 1
                     /\ InStraight(t - 1, Len(Snapshots))
                  THEN 3
                  ELSE 0

\* a playback that ran to its end without input and rewrote a snapshot
UntouchedPlaybackOver ==
    /\ RaceOnScreen
    /\ raceModel.mode = "ViewingResult"
    /\ ~touched
    /\ \E t \in 1..Len(Snapshots) : Rewritten(t)

\* the last snapshot as it stands
FinalSnapshot ==
    Snapshots[Len(Snapshots)]

\* C10: what completeRace credits is the prize and the fan gain of the rank
\* the player has in the final snapshot when the playback has ended (stated
\* for final snapshots without equal distances, where that rank is the
\* player's place by distance).
PayoutFollowsFinalStandings ==
    (/\ currentView = "RaceView"
     /\ RaceOnScreen
     /\ raceModel.mode = "ViewingResult"
     /\ \A a, b \in DOMAIN FinalSnapshot.Distances :
            a # b => FinalSnapshot.Distances[a] # FinalSnapshot.Distances[b])
    => LET race == raceModel.races[raceModel.selectedRace + 1]
           rank == FinalSnapshot.Positions[PlayerHorseID]
           after == completeRace(raceModel, playerHorse)
       IN  /\ raceModel.result.PlayerRank = rank
           /\ after.Money = playerHorse.Money + GetPrizeForPosition(race, rank)
           /\ after.FanSupport = playerHorse.FanSupport + GetFansForPosition(race, rank)

(***************************************************************************)
(* Leaving the race, and ticks after its end.                              *)
(***************************************************************************)
\* C11: while the race is played back in the race view (and no navigation was
\* asked for before it began) no step makes the program quit, asks for another
\* view, leaves the race view or leaves the mode Racing, except the tick that
\* plays the last snapshot and shows the result.
RaceNotAbandoned ==
    [][RaceInProgress /\ navs = 0 /\ ~quitting =>
          /\ ~quitting'
          /\ navs' = 0
          /\ currentView' = "RaceView"
          /\ \/ raceModel'.mode = "Racing"
             \/ /\ raceModel'.mode = "ViewingResult"
                /\ raceModel'.currentTurn = raceModel.currentTurn + 1
                /\ raceModel'.currentTurn = Len(raceModel'.liveProgress)]_vars

\* C12: the current turn never exceeds the number of snapshots, and a tick
\* delivered to the race view when the result is shown changes nothing of the
\* race model (turn, snapshots, live-session state, mode) and schedules no
\* further tick.
TickAfterEndIsNoOp ==
    /\ [](raceModel.currentTurn <= Len(raceModel.liveProgress))
    /\ [][currentView = "RaceView" /\ raceModel.mode = "ViewingResult" /\ ticks' # ticks =>
            raceModel' = raceModel /\ ticks' = ticks - 1]_vars

\* the result is on screen and a tick of an earlier race is still to come
TickPendingAtResult ==
    /\ currentView = "RaceView"
    /\ raceModel.mode = "ViewingResult"
    /\ raceModel.currentTurn = Len(raceModel.liveProgress)
    /\ ticks > 0

(***************************************************************************)
(* The strategy stage (applyStrategyModifier).                             *)
(***************************************************************************)
\* the formation multiplier of the progress bucket, in percent
FormationPct(formation, turn, totalTurns) ==
    CASE formation = "Lead" -> IF 10 * turn < 3 * totalTurns THEN 120 ELSE 100
      [] formation = "Draft" -> IF 10 * turn > 7 * totalTurns THEN 130 ELSE 90
      [] formation = "Mount" -> IF 10 * turn > 8 * totalTurns THEN 140 ELSE 80

\* the pace multiplier of the progress bucket, in percent
PacePct(pace, turn, totalTurns) ==
    CASE pace = "Fast" -> IF 2 * turn < totalTurns THEN 120 ELSE 80
      [] pace = "Even" -> 100
      [] pace = "Conserve" -> IF 10 * turn > 6 * totalTurns THEN 110 ELSE 90

\* C13: the strategy stage gives the player's base speed times the formation
\* multiplier times the pace multiplier of the current progress bucket.
StrategyModifiersCompose ==
    call.op = "applyStrategyModifier" /\ call.done =>
        call.out = GoDiv(call.baseSpeed
                         * FormationPct(call.strategy.Formation, call.turn, call.totalTurns)
                         * PacePct(call.strategy.Pace, call.turn, call.totalTurns), 10000)

(***************************************************************************)
(* Distances and stamina.                                                  *)
(***************************************************************************)
\* C14: whatever the lane, the whip window and the obedience of the horse,
\* a tick leaves the player's distance in the snapshot it rewrites at zero or
\* above when the simulated distance was not negative.
DistanceNeverNegative ==
    call.op = "applyInteractiveModifiers" /\ call.done =>
        \A lp \in call.out :
            lp[call.rm.currentTurn + 1].Distances[PlayerHorseID] >= 0

\* C15: a tick of an obedient horse, which applies no disobedience penalty,
\* leaves the player's distance in the snapshot it plays at least as great as
\* in the snapshot played before it.
PlaybackDistanceMonotone ==
    [][(/\ RaceInProgress
        /\ ~raceModel.isDisobedient
        /\ raceModel'.currentTurn = raceModel.currentTurn + 1
        /\ raceModel'.currentTurn < Len(raceModel'.liveProgress))
       => raceModel'.liveProgress[raceModel'.currentTurn + 1].Distances[PlayerHorseID]
              >= raceModel'.liveProgress[raceModel'.currentTurn].Distances[PlayerHorseID]]_vars

\* C16: in a run of Simulate every entrant's distance is non-negative after
\* turn 1 and never decreases from one turn to the next, the turns in which
\* the stamina check halves the movement included.
SimulatedDistanceMonotone ==
    [][call.op = "Simulate" /\ call'.op = "Simulate" =>
          \A h \in DOMAIN call.st.distances :
              /\ call'.st.distances[h] >= call.st.distances[h]
              /\ call'.st.distances[h] >= 0]_vars

\* a turn late in the race in which the stamina check failed for a horse that
\* had run out of stamina on the way
HalvedMovementLate ==
    /\ call.op = "Simulate"
    /\ call.turn > 8
    /\ call.gated
    /\ \E h \in DOMAIN call.st.stamina :
          call.st.stamina[h] = 0 /\ call.rs.horses[h].Stamina > 0 /\ call.st.distances[h] > 0

\* C17: the live stamina of the race stays within 0..100: no accepted whip
\* takes it below 0 and the regeneration of the ticks never takes it above 100.
LiveStaminaInRange ==
    raceModel.raceStamina \in 0..100

\* one whip at turn 3 left 75, and the 13 remaining ticks of the race brought
\* the stamina back to the cap: 75 + 26 would be 101
StaminaBackAtCap ==
    /\ currentView = "RaceView"
    /\ raceModel.mode = "ViewingResult"
    /\ raceModel.whipUses = 1
    /\ raceModel.lastWhipTurn = 3
    /\ raceModel.raceStamina = 100

\* C18: the stamina counter Simulate keeps for each entrant, the player and
\* the generated opponents alike, is within 0..100 from its seeding on.
SimulationStaminaInRange ==
    call.op = "Simulate" =>
        \A h \in DOMAIN call.st.stamina : call.st.stamina[h] \in 0..100

(***************************************************************************)
(* The payout tables and the malformed race.                               *)
(***************************************************************************)
\* C19: the prize is Prize, Prize/2, Prize/4 for the ranks 1, 2, 3, Prize/8
\* for the ranks 4 and 5 and 0 for any other rank, with integer division; the
\* fan gain is 1000 + 500g, 500 + 250g, 250 + 100g for the ranks 1, 2, 3,
\* 100 + 50g for the ranks 4 and 5 and 25 for any other rank, g the grade.
PayoutFollowsTables ==
    call.op = "Payout" /\ call.done =>
        LET p == call.race.Prize
            g == call.race.Grade
            r == call.position
        IN  /\ call.prize = IF r = 1 THEN p
                            ELSE IF r = 2 THEN p \div 2
                            ELSE IF r = 3 THEN p \div 4
                            ELSE IF r = 4 \/ r = 5 THEN p \div 8
                            ELSE 0
            /\ call.fans = IF r = 1 THEN 1000 + g * 500
                           ELSE IF r = 2 THEN 500 + g * 250
                           ELSE IF r = 3 THEN 250 + g * 100
                           ELSE IF r = 4 \/ r = 5 THEN 100 + g * 50
                           ELSE 25

\* the fifth of a race whose prize of 12345 does not divide by 8
FifthOfOddPrize ==
    /\ call.op = "Payout"
    /\ call.done
    /\ call.position = 5
    /\ call.race.Prize = 12345
    /\ call.prize = 1543

\* a race of distance 0, a race without entrants, or a player who is not
\* among the entrants
Malformed(rs) ==
    \/ rs.race.Distance = 0
    \/ Len(rs.race.Entrants) = 0
    \/ \A i \in 1..Len(rs.race.Entrants) : rs.race.Entrants[i] # rs.playerHorse

\* C20: for a malformed race Simulate returns no snapshot and no payout.
SimulateRefusesMalformed ==
    call.op = "Run" /\ call.done /\ Malformed(call.rs) =>
        \A result \in call.out :
            /\ result.LiveProgress = <<>>
            /\ result.PrizeMoney = 0
            /\ result.FansGained = 0

(***************************************************************************)
(* What a tick may write, and the tick chain.                              *)
(***************************************************************************)
\* the distances of all entrants in all snapshots
AllDistances(lp) ==
    [t \in 1..Len(lp) |-> lp[t].Distances]

\* C21: during the race the distances of the snapshots change in a tick only,
\* and a tick changes nothing but the player's distance in the snapshot of the
\* new current turn: every other entrant and every other snapshot, earlier or
\* later, keeps its distances.
TickWritesCurrentPlayerOnly ==
    [][RaceInProgress /\ raceModel'.mode \in {"Racing", "ViewingResult"} =>
          /\ Len(raceModel'.liveProgress) = Len(raceModel.liveProgress)
          /\ IF raceModel'.currentTurn = raceModel.currentTurn
             THEN AllDistances(raceModel'.liveProgress) = AllDistances(raceModel.liveProgress)
             ELSE \A t \in 1..Len(raceModel.liveProgress) :
                      \A h \in DOMAIN raceModel.liveProgress[t].Distances :
                          t # raceModel'.currentTurn + 1 \/ h # PlayerHorseID =>
                              raceModel'.liveProgress[t].Distances[h]
                                  = raceModel.liveProgress[t].Distances[h]]_vars

\* the tick has just rewritten the player's distance in the snapshot of the
\* current turn, and the snapshots after it are still the simulated ones
CurrentSnapshotRewritten ==
    /\ RaceInProgress
    /\ raceModel.currentTurn >= 1
    /\ Len(simulated) = Len(Snapshots)
    /\ Snapshots[raceModel.currentTurn + 1].Distances[PlayerHorseID]
           # simulated[raceModel.currentTurn + 1].Distances[PlayerHorseID]
    /\ \A t \in (raceModel.currentTurn + 2)..Len(Snapshots) : Snapshots[t] = simulated[t]

\* C22: at most one RaceTickMsg is scheduled or in flight at any time, so
\* that no race is driven by the tick of a race started before it.
SingleTickChain ==
    ticks <= 1

\* C23: a race that reaches the result has its outcome applied to the
\* player's horse exactly once: never more than once while the result is on
\* screen, and exactly once by the time the result view is left.
OutcomeAppliedOnce ==
    [][currentView = "RaceView" /\ raceModel.mode = "ViewingResult" =>
          /\ applied' <= 1
          /\ (currentView' # "RaceView" \/ raceModel'.mode # "ViewingResult") =>
                 applied' = 1]_vars

\* C24: the speed calculateHorseSpeed returns is at least 1 for every horse
\* and every turn.
SpeedAtLeastOne ==
    call.op = "Speed" /\ call.done => call.out >= 1

\* the floor acted: the fatigue penalty exceeds the positive terms, or the
\* stamina factor of the second half of the race is 0
SpeedFloored ==
    /\ call.op = "Speed"
    /\ call.done
    /\ call.out = 1
    /\ \/ GoDiv(call.horse.Fatigue, 10) > GoDiv(call.horse.Speed, 5)
                + GoDiv(call.horse.Technique, 20) + GoDiv(call.horse.Mental, 25)
       \/ 2 * call.turn > call.totalTurns /\ call.horse.Stamina = 0

\* C25: for a race of distance D, Simulate returns max(10, D / 100) turn
\* snapshots, and the Turn field of the t-th is t.
SnapshotPerTurn ==
    call.op = "Run" /\ call.done =>
        \A result \in call.out :
            /\ Len(result.LiveProgress) = Max(10, GoDiv(call.rs.race.Distance, 100))
            /\ \A t \in 1..Len(result.LiveProgress) : result.LiveProgress[t].Turn = t

\* the mile has been simulated, in sixteen turns
MileInSixteenTurns ==
    /\ call.op = "Run"
    /\ call.done
    /\ call.rs.race.Distance = 1600
    /\ \E result \in call.out :
           /\ Len(result.LiveProgress) = 16
           /\ result.LiveProgress[16].Turn = 16

(***************************************************************************)
(* The lanes.                                                              *)
(***************************************************************************)
\* C26: the player's lane is always one of 0..4, and in a race, while the
\* horse obeys, a lane key moves it by one lane in its direction, except at
\* lane 0 for "left" and at lane 4 for "right", where the lane stays.
LaneOnTrack ==
    /\ raceModel.playerLane \in 0..4
    /\ raceModel.mode = "Racing" /\ ~raceModel.isDisobedient =>
           /\ MoveLeft(raceModel).playerLane =
                  IF raceModel.playerLane = 0 THEN 0 ELSE raceModel.playerLane - 1
           /\ MoveRight(raceModel).playerLane =
                  IF raceModel.playerLane = 4 THEN 4 ELSE raceModel.playerLane + 1

\* the player has steered the horse to the rail during the race
SteeredToTheRail ==
    /\ currentView = "RaceView"
    /\ raceModel.mode = "Racing"
    /\ raceModel.currentTurn >= 1
    /\ touched
    /\ raceModel.playerLane = 0

(***************************************************************************)
(* The disobedience chance.                                                *)
(***************************************************************************)
\* C27: the disobedience chance rolled after an accepted whip is between 5%
\* and 80%, and for the same horse it does not decrease when the whip count
\* increases.
ChanceCappedAndMonotone ==
    call.op = "Chance" /\ call.done =>
        /\ 50 <= call.out
        /\ call.out <= 800
        /\ call.out <= call.next

\* a chance that rose with the next whip and met the cap of 80%
ChanceRoseToTheCap ==
    /\ call.op = "Chance"
    /\ call.done
    /\ call.out > 50
    /\ call.out < call.next
    /\ call.next = 800
    /\ CalculateDisobedienceChanceUncapped(call.horse, call.whipUses + 1) > 800

(***************************************************************************)
(* The live session of a race.                                             *)
(***************************************************************************)
\* C28: a race starts with a fresh live session, whatever the one before it
\* left: on entering Racing the lane is 2, the live stamina 100, the whip
\* count and the turn of the last whip 0, the horse obeys with its
\* obedience counter at 0, and the current turn is 0.
RaceStartsFresh ==
    [][raceModel.mode # "Racing" /\ raceModel'.mode = "Racing" =>
          /\ raceModel'.playerLane = 2
          /\ raceModel'.raceStamina = 100
          /\ raceModel'.whipUses = 0
          /\ raceModel'.lastWhipTurn = 0
          /\ ~raceModel'.isDisobedient
          /\ raceModel'.obedienceCounter = 0
          /\ raceModel'.currentTurn = 0]_vars

\* a race has just started in a race view whose previous race had ended with
\* the horse whipped and tired or disobedient
FreshAfterWornSession ==
    /\ worn
    /\ currentView = "RaceView"
    /\ raceModel.mode = "Racing"
    /\ raceModel.currentTurn = 0
    /\ raceModel.raceStamina = 100
    /\ raceModel.whipUses = 0
    /\ ~raceModel.isDisobedient

(***************************************************************************)
(* The modes of the race view.                                             *)
(***************************************************************************)
\* the live session of the race view
LiveSession(rm) ==
    <<rm.playerLane, rm.raceStamina, rm.whipUses, rm.lastWhipTurn, rm.isDisobedient,
      rm.obedienceCounter>>

\* C29: the modes follow one another in the order SelectingRace,
\* SettingStrategy, ConfirmingEntry, Racing, ViewingResult, a mode change
\* that is not the next step of this order being a return to SelectingRace;
\* Racing is entered from ConfirmingEntry only, with the entry fee covered;
\* ViewingResult is entered from Racing only, on the tick that brings the
\* current turn to the last snapshot; and outside Racing no key handled by
\* the race view, the lane keys included, changes the live session.
ModesInOrder ==
    [][/\ raceModel'.mode # raceModel.mode =>
             \/ raceModel'.mode = "SelectingRace"
             \/ <<raceModel.mode, raceModel'.mode>> \in
                    {<<"SelectingRace", "SettingStrategy">>,
                     <<"SettingStrategy", "ConfirmingEntry">>,
                     <<"ConfirmingEntry", "Racing">>,
                     <<"Racing", "ViewingResult">>}
       /\ raceModel.mode # "Racing" /\ raceModel'.mode = "Racing" =>
             /\ raceModel.mode = "ConfirmingEntry"
             /\ playerHorse.Money >= GetEntryFee(raceModel.races[raceModel.selectedRace + 1])
       /\ raceModel.mode # "ViewingResult" /\ raceModel'.mode = "ViewingResult" =>
             /\ raceModel.mode = "Racing"
             /\ ticks' = ticks - 1
             /\ raceModel'.currentTurn = raceModel.currentTurn + 1
             /\ raceModel'.currentTurn = Len(raceModel'.liveProgress)
       /\ currentView = "RaceView" /\ currentView' = "RaceView"
           /\ raceModel.mode # "Racing" /\ raceModel'.mode # "Racing" =>
             LiveSession(raceModel') = LiveSession(raceModel)
       /\ raceModel.mode # "Racing" =>
             /\ LiveSession(MoveLeft(raceModel)) = LiveSession(raceModel)
             /\ LiveSession(MoveRight(raceModel)) = LiveSession(raceModel)]_vars

\* a race has gone from the confirmation through Racing, where the player
\* steered or whipped, to its result on the last tick
ResultAfterSteeredRace ==
    /\ currentView = "RaceView"
    /\ raceModel.mode = "ViewingResult"
    /\ touched
    /\ ticks = 0
    /\ raceModel.currentTurn = Len(raceModel.liveProgress)
    /\ LiveSession(raceModel) # LiveSession(NewRaceModel(playerHorse, availableRaces))

(***************************************************************************)
(* The stable: Horse.Train and Horse.Rest called on one horse, one call    *)
(* after the other.                                                        *)
(***************************************************************************)
\* NewHorse, with the fields Train and Rest read or write
NewHorse(baseStats) ==
    [Stamina |-> baseStats, Speed |-> baseStats, Technique |-> baseStats,
     Mental |-> baseStats,
     MaxStamina |-> baseStats + 200, MaxSpeed |-> baseStats + 200,
     MaxTechnique |-> baseStats + 200, MaxMental |-> baseStats + 200,
     Fatigue |-> 0, Morale |-> 100, FanSupport |-> 0]

TrainingTypes ==
    {"Stamina", "Speed", "Technique", "Mental"}

\* the event table of generateTrainingEvent, by the effects of each event;
\* every event of the table can be drawn whatever the morale is
NoEvent ==
    [morale |-> 0, fatigue |-> 0, fan_support |-> 0]

TrainingEvents ==
    {[morale |-> 10, fatigue |-> 0, fan_support |-> 0],
     [morale |-> 15, fatigue |-> 0, fan_support |-> 50],
     [morale |-> -5, fatigue |-> 0, fan_support |-> 0],
     [morale |-> -10, fatigue |-> 10, fan_support |-> 0],
     [morale |-> 8, fatigue |-> -5, fan_support |-> 0],
     [morale |-> -3, fatigue |-> 0, fan_support |-> 0]}

IsStatMaxed(h, trainingType) ==
    CASE trainingType = "Stamina" -> h.Stamina >= h.MaxStamina
      [] trainingType = "Speed" -> h.Speed >= h.MaxSpeed
      [] trainingType = "Technique" -> h.Technique >= h.MaxTechnique
      [] trainingType = "Mental" -> h.Mental >= h.MaxMental

\* applyEventEffects for the effects of the event table
applyEventEffects(h, effects) ==
    [h EXCEPT !.Morale = IF effects.morale # 0
                         THEN Min(Max(h.Morale + effects.morale, 20), 100)
                         ELSE h.Morale,
              !.Fatigue = IF effects.fatigue # 0
                          THEN Min(Max(h.Fatigue + effects.fatigue, 0), 100)
                          ELSE h.Fatigue,
              !.FanSupport = IF effects.fan_support # 0
                             THEN Max(h.FanSupport + effects.fan_support, 0)
                             ELSE h.FanSupport]

NoTraining ==
    [Success |-> FALSE, StatGain |-> 0, FatigueGain |-> 0]

\* Train: the horse after the call and the TrainingResult; bonus is what
\* calculateSupporterBonus returns and event the effects of the event drawn
Train(h, trainingType, bonus, event) ==
    IF h.Fatigue >= 80
    THEN [horse |-> h, result |-> NoTraining]
    ELSE LET baseGain == 10 + bonus
             moraleMultiplier ==
                 IF h.Morale >= 100 THEN 120
                 ELSE IF h.Morale >= 80 THEN 110
                 ELSE IF h.Morale >= 60 THEN 100
                 ELSE IF h.Morale >= 40 THEN 90
                 ELSE 80
             \* math.Round
             actualGain == GoDiv(baseGain * moraleMultiplier + 50, 100)
             wasAtMax == IsStatMaxed(h, trainingType)
             trained ==
                 CASE trainingType = "Stamina" ->
                         [h EXCEPT !.Stamina = IF h.Stamina < h.MaxStamina
                                               THEN Min(h.Stamina + actualGain, h.MaxStamina)
                                               ELSE h.Stamina]
                   [] trainingType = "Speed" ->
                         [h EXCEPT !.Speed = IF h.Speed < h.MaxSpeed
                                             THEN Min(h.Speed + actualGain, h.MaxSpeed)
                                             ELSE h.Speed]
                   [] trainingType = "Technique" ->
                         [h EXCEPT !.Technique = IF h.Technique < h.MaxTechnique
                                                 THEN Min(h.Technique + actualGain,
                                                          h.MaxTechnique)
                                                 ELSE h.Technique]
                   [] trainingType = "Mental" ->
                         [h EXCEPT !.Mental = IF h.Mental < h.MaxMental
                                              THEN Min(h.Mental + actualGain, h.MaxMental)
                                              ELSE h.Mental]
             tired == [trained EXCEPT !.Fatigue = Min(trained.Fatigue + 15, 100),
                                      !.Morale = Max(trained.Morale - 2, 20)]
             cheered == IF ~wasAtMax /\ IsStatMaxed(tired, trainingType)
                        THEN [tired EXCEPT !.Morale = Min(tired.Morale + 5, 100)]
                        ELSE tired
         IN  [horse |-> applyEventEffects(cheered, event),
              result |-> [Success |-> TRUE, StatGain |-> actualGain, FatigueGain |-> 15]]

Rest(h) ==
    [h EXCEPT !.Fatigue = Max(h.Fatigue - 30, 0), !.Morale = Min(h.Morale + 10, 100)]

\* the horses brought to the stable: the new horse of TestHorseTraining, the
\* same horse after three and after four races, and one whose stamina a
\* long training has brought close to its maximum
StableHorses ==
    LET new == NewHorse(50)
    IN  {new,
         [new EXCEPT !.Fatigue = 75, !.Morale = 70],
         [new EXCEPT !.Fatigue = 100, !.Morale = 60],
         [new EXCEPT !.Stamina = 245, !.Morale = 50]}

\* the training bonus of the supporters assigned: none, or the Stamina Trainer
SupporterBonuses ==
    {0, 7}

StableCalls ==
    [op : {"Stable"}, horse : StableHorses, bonus : SupporterBonuses, sessions : {0},
     last : {"none"}, before : StableHorses, result : {NoTraining}]

TrainHorse ==
    /\ call.op = "Stable"
    /\ call.sessions < MaxSessions
    /\ \E trainingType \in TrainingTypes, event \in TrainingEvents \cup {NoEvent} :
           LET out == Train(call.horse, trainingType,
                            IF trainingType = "Stamina" THEN call.bonus ELSE 0, event)
           IN  call' = [call EXCEPT !.horse = out.horse, !.result = out.result,
                                    !.before = call.horse, !.last = "Train",
                                    !.sessions = call.sessions + 1]
    /\ UNCHANGED session

RestHorse ==
    /\ call.op = "Stable"
    /\ call.sessions < MaxSessions
    /\ call' = [call EXCEPT !.horse = Rest(call.horse), !.result = NoTraining,
                            !.before = call.horse, !.last = "Rest",
                            !.sessions = call.sessions + 1]
    /\ UNCHANGED session

InitStable ==
    /\ currentView = "MainMenuView"
    /\ availableRaces = <<SprintRace>>
    /\ raceModel = NewRaceModel(LoadedHorse, availableRaces)
    /\ playerHorse = LoadedHorse
    /\ ticks = 0
    /\ navs = 0
    /\ simulated = <<>>
    /\ touched = FALSE
    /\ applied = 0
    /\ worn = FALSE
    /\ inputsLeft = 0
    /\ racesLeft = 0
    /\ quitting = FALSE
    /\ call \in {c \in StableCalls : c.before = c.horse}

NextStable ==
    \/ TrainHorse
    \/ RestHorse

SpecStable == InitStable /\ [][NextStable]_vars

\* C30: a Train call on a horse with fatigue below 80 succeeds, reports a
\* positive stat gain and leaves the fatigue 15 higher, at most 100; a Train
\* call on a horse with fatigue 80 or more fails and leaves the horse as it
\* was; and after every sequence of Train and Rest calls the fatigue is
\* within 0..100.
TrainingContract ==
    call.op = "Stable" =>
        /\ call.horse.Fatigue \in 0..100
        /\ call.last = "Train" /\ call.before.Fatigue < 80 =>
               /\ call.result.Success
               /\ call.result.StatGain > 0
               /\ call.horse.Fatigue = Min(call.before.Fatigue + 15, 100)
        /\ call.last = "Train" /\ call.before.Fatigue >= 80 =>
               /\ ~call.result.Success
               /\ call.horse = call.before

(***************************************************************************)
(* The playback, turn by turn.                                             *)
(***************************************************************************)
\* C31: every tick handled in Racing applies the interactive modifiers to
\* the snapshot of the turn it advances to, the first turn and the last one
\* included, so that over a playback each snapshot is modified exactly once.
TickModifiesTurnAdvancedTo ==
    [][RaceInProgress /\ raceModel'.currentTurn = raceModel.currentTurn + 1 =>
          LET advanced == [raceModel EXCEPT !.currentTurn = raceModel.currentTurn + 1]
              turn == raceModel'.currentTurn
          IN  /\ raceModel'.liveProgress[turn].Turn = turn
              /\ raceModel'.liveProgress[turn].Distances[PlayerHorseID] =
                     ModifiedDistance(advanced, simulated[turn].Distances[PlayerHorseID])]_vars

\* C32: a tick that applies the modifiers turns the player's distance d in
\* the snapshot it rewrites into: d plus d / 10 when a whip was used within
\* the last 2 turns, then plus the lane adjustment, then minus 15% of that
\* value when the horse was disobedient as the tick started; each stage acts
\* once, in this order, and the obedience counter goes down by one on the
\* same tick, after the penalty.
ModifiersInOrder ==
    [][(/\ RaceInProgress
        /\ raceModel'.currentTurn = raceModel.currentTurn + 1
        /\ raceModel'.currentTurn < Len(raceModel.liveProgress)) =>
          LET turn == raceModel'.currentTurn
              d == raceModel.liveProgress[turn + 1].Distances[PlayerHorseID]
              boosted == IF raceModel.lastWhipTurn > 0 /\ turn - raceModel.lastWhipTurn <= 2
                         THEN d + GoDiv(d, 10)
                         ELSE d
              steered == boosted + LaneBonus(raceModel.playerLane,
                                             IsInTurn(turn, Len(raceModel.liveProgress)))
              held == IF raceModel.isDisobedient
                      THEN steered - GoDiv(steered * 15, 100)
                      ELSE steered
          IN  /\ raceModel'.liveProgress[turn + 1].Distances[PlayerHorseID] = held
              /\ raceModel.isDisobedient =>
                     raceModel'.obedienceCounter = raceModel.obedienceCounter - 1]_vars

\* the tick after a whip that made the horse disobedient has applied the
\* boost, a lane adjustment and the penalty to one snapshot
AllThreeStagesApplied ==
    /\ RaceInProgress
    /\ raceModel.isDisobedient
    /\ raceModel.obedienceCounter = 4
    /\ raceModel.currentTurn = raceModel.lastWhipTurn + 1
    /\ raceModel.currentTurn < Len(Snapshots)
    /\ LaneBonus(raceModel.playerLane, IsInTurn(raceModel.currentTurn, Len(Snapshots))) # 0
    /\ LET d == simulated[raceModel.currentTurn + 1].Distances[PlayerHorseID]
           steered == d + GoDiv(d, 10)
                        + LaneBonus(raceModel.playerLane,
                                    IsInTurn(raceModel.currentTurn, Len(Snapshots)))
       IN  /\ d >= 10
           /\ Snapshots[raceModel.currentTurn + 1].Distances[PlayerHorseID]
                  = steered - GoDiv(steered * 15, 100)

\* C33: after a whip accepted at turn t the boost of 10% is applied on the
\* tick that advances the current turn to t + 1 and on the one that advances
\* it to t + 2, once on each, and on no other tick; before the first
\* accepted whip no tick applies it.
BoostOnTheTwoTicksAfterWhip ==
    [][RaceInProgress /\ raceModel'.currentTurn = raceModel.currentTurn + 1 =>
          LET turn == raceModel'.currentTurn
              T == Len(raceModel.liveProgress)
              lane == LaneBonus(raceModel.playerLane, IsInTurn(turn, T))
              held(x) == IF raceModel.isDisobedient THEN x - GoDiv(x * 15, 100) ELSE x
              before(k) == raceModel.liveProgress[k].Distances[PlayerHorseID]
              after(k) == raceModel'.liveProgress[k].Distances[PlayerHorseID]
          IN  IF raceModel.lastWhipTurn > 0
                    /\ turn \in {raceModel.lastWhipTurn + 1, raceModel.lastWhipTurn + 2}
              THEN \E k \in 1..T :
                       /\ after(k) = held(before(k) + GoDiv(before(k), 10) + lane)
                       /\ \A j \in 1..T : j # k => after(j) = before(j)
              ELSE \A k \in 1..T :
                       \/ after(k) = before(k)
                       \/ after(k) = held(before(k) + lane)]_vars

\* C34: the lane adjustment a tick adds to the player's distance depends on
\* the lane and the section only: in the first and the last quarter of the
\* turns, bounds included, it is 5, 3, 0, -2, -4 for the lanes 0..4, and
\* elsewhere -2, 0, 3, 0, -2.
LaneTable ==
    call.op = "Lane" /\ call.done =>
        LET turn == call.rm.currentTurn
            T == Len(call.rm.liveProgress)
            d == call.rm.liveProgress[turn + 1].Distances[PlayerHorseID]
            adjustment == IF 4 * turn <= T \/ 4 * turn >= 3 * T
                          THEN <<5, 3, 0, -2, -4>>[call.rm.playerLane + 1]
                          ELSE <<-2, 0, 3, 0, -2>>[call.rm.playerLane + 1]
        IN  \A lp \in call.out :
                lp[turn + 1].Distances[PlayerHorseID] = d + adjustment

\* the rail has paid its 5 at turn 12 of 16, the first turn of the last quarter
RailPaysAtTheQuarter ==
    /\ call.op = "Lane"
    /\ call.done
    /\ Len(call.rm.liveProgress) = 16
    /\ call.rm.currentTurn = 12
    /\ call.rm.playerLane = 0
    /\ \E lp \in call.out : lp[13].Distances[PlayerHorseID] = MaxDistance + 5

(***************************************************************************)
(* The simulated turn.                                                     *)
(***************************************************************************)
\* C35: in every simulated turn an entrant with movement m and cost m / 2
\* whose stamina counter is at least the cost gains m and pays the cost; an
\* entrant whose counter is below the cost gains m / 2 and its counter
\* becomes 0; nothing else changes the counter of an entrant.
StaminaGatedMove ==
    [][call.op = "Simulate" /\ call'.op = "Simulate" /\ call'.turn = call.turn + 1 =>
          \A i \in 1..Len(call.rs.race.Entrants) :
              LET h == call.rs.race.Entrants[i]
                  m == Movement(call.rs, call.seed, call'.turn,
                                NumTurns(call.rs.race.Distance), i)
                  cost == GoDiv(m, 2)
              IN  IF call.st.stamina[h] >= cost
                  THEN /\ call'.st.distances[h] = call.st.distances[h] + m
                       /\ call'.st.stamina[h] = call.st.stamina[h] - cost
                  ELSE /\ call'.st.distances[h] = call.st.distances[h] + GoDiv(m, 2)
                       /\ call'.st.stamina[h] = 0]_vars

\* a turn in which one entrant moved at half its movement, its counter at 0,
\* while another paid for a full move out of a counter that is not exhausted
HalfAndFullMoveInOneTurn ==
    /\ call.op = "Simulate"
    /\ call.gated
    /\ \E h, g \in DOMAIN call.st.stamina :
          /\ call.st.stamina[h] = 0
          /\ call.st.distances[h] > 0
          /\ call.st.stamina[g] > 0
          /\ call.st.stamina[g] < call.rs.horses[g].Stamina

\* C36: for every base speed of at least 1 and every formation, pace and
\* turn, the speed applyStrategyModifier returns is at least 1.
StrategySpeedAtLeastOne ==
    call.op = "applyStrategyModifier" /\ call.done /\ call.baseSpeed >= 1 =>
        call.out >= 1

(***************************************************************************)
(* The length of a disobedience (useWhip).                                 *)
(***************************************************************************)
\* C37: when the disobedience roll is positive, the counter is set to a
\* duration between 2 and 5 turns inclusive, for every mental value.
DurationBetweenTwoAndFive ==
    call.op = "Whip" /\ call.done /\ call.roll =>
        /\ call.out.isDisobedient
        /\ call.out.obedienceCounter \in 2..5

\* C37, as the code has it: on a positive roll the horse is disobedient for
\* at least 2 turns; for at most 5 turns when its mental stat is above 30,
\* for exactly 5 from 31 to 69 and for 2 from 110 on; from 0 to 30 the
\* duration is 6 or 7 turns. A negative roll leaves the horse obedient.
DurationFromMental ==
    call.op = "Whip" /\ call.done =>
        IF call.roll
        THEN /\ call.out.isDisobedient
             /\ call.out.obedienceCounter >= 2
             /\ call.horse.Mental > 30 => call.out.obedienceCounter <= 5
             /\ call.horse.Mental \in 31..69 => call.out.obedienceCounter = 5
             /\ call.horse.Mental >= 110 => call.out.obedienceCounter = 2
             /\ call.horse.Mental \in 0..30 => call.out.obedienceCounter \in {6, 7}
        ELSE /\ ~call.out.isDisobedient
             /\ call.out.obedienceCounter = 0

\* a positive roll on a horse with no mental stat: seven turns of disobedience
SevenTurnsAtMentalZero ==
    /\ call.op = "Whip"
    /\ call.done
    /\ call.roll
    /\ call.horse.Mental = 0
    /\ call.out.obedienceCounter = 7
    /\ call.out.whipUses = 1

(***************************************************************************)
(* The disobedience flag and its counter.                                  *)
(***************************************************************************)
\* C39: in every reachable state of the race model the disobedience flag is
\* set if and only if the disobedience counter is greater than zero, across
\* whip triggers, ticks and race restarts.
FlagIffCounterPositive ==
    raceModel.isDisobedient <=> raceModel.obedienceCounter > 0

\* the last turn of a disobedience: ticks have counted it down to 1 and the
\* flag is still set
LastTurnOfDisobedience ==
    /\ raceModel.mode = "Racing"
    /\ raceModel.isDisobedient
    /\ raceModel.obedienceCounter = 1
    /\ raceModel.whipUses > 0

(***************************************************************************)
(* The playback comes to its end.                                          *)
(***************************************************************************)
\* C38: from the entry into Racing with T snapshots, every scheduled tick
\* being delivered, the playback reaches the result after exactly T
\* processed ticks, whatever whip and lane inputs come between the ticks:
\* the current turn is below T while the race runs and equal to T when the
\* result is shown, every tick advances it by exactly one, no input changes
\* it or the mode, and the result is eventually reached.
PlaybackReachesResult ==
    /\ [](raceModel.mode = "Racing" =>
              raceModel.currentTurn < Len(raceModel.liveProgress))
    /\ [](raceModel.mode = "ViewingResult" =>
              raceModel.currentTurn = Len(raceModel.liveProgress))
    /\ [][raceModel.mode = "Racing" =>
              IF RaceTick
              THEN raceModel'.currentTurn = raceModel.currentTurn + 1
              ELSE /\ raceModel'.currentTurn = raceModel.currentTurn
                   /\ raceModel'.mode = "Racing"]_vars
    /\ (raceModel.mode = "Racing" ~> raceModel.mode = "ViewingResult")

\* the result of the sprint reached on the last tick of a playback with a
\* whip in it
ResultAfterWhippedPlayback ==
    /\ raceModel.mode = "ViewingResult"
    /\ raceModel.currentTurn = NumTurns(SprintRace.Distance)
    /\ Len(raceModel.liveProgress) = NumTurns(SprintRace.Distance)
    /\ raceModel.whipUses > 0
    /\ ticks = 0

(***************************************************************************)
(* The RaceResult of Simulate.                                             *)
(***************************************************************************)
\* the player is among the entrants of the race, as startRace enters it
Entered(rs) ==
    \E i \in 1..Len(rs.race.Entrants) : rs.race.Entrants[i] = rs.playerHorse

\* C40: in the RaceResult Simulate returns for a race the player is entered
\* in, Results holds every entrant exactly once, the i-th entry has Position
\* i, PlayerRank is the Position of the player's entry and the player's
\* position in the last snapshot, and PrizeMoney and FansGained are the
\* values of GetPrizeForPosition and GetFansForPosition for PlayerRank.
ResultConsistent ==
    call.op = "Run" /\ call.done /\ Entered(call.rs) =>
        \A result \in call.out :
            LET entrants == call.rs.race.Entrants
                n == Len(entrants)
                last == result.LiveProgress[Len(result.LiveProgress)]
            IN  /\ Len(result.Results) = n
                /\ \A i \in 1..n :
                       Cardinality({k \in 1..n :
                           result.Results[k].HorseID = entrants[i]}) = 1
                /\ \A i \in 1..n : result.Results[i].Position = i
                /\ result.PlayerHorse = call.rs.playerHorse
                /\ \E i \in 1..n :
                       /\ result.Results[i].HorseID = result.PlayerHorse
                       /\ result.Results[i].Position = result.PlayerRank
                /\ last.Positions[result.PlayerHorse] = result.PlayerRank
                /\ result.PrizeMoney = GetPrizeForPosition(call.rs.race, result.PlayerRank)
                /\ result.FansGained = GetFansForPosition(call.rs.race, result.PlayerRank)

\* the mile run with the player, entered first, finishing behind another
\* entrant and paid for the rank it finished in
PlayerSortedDownTheList ==
    /\ call.op = "Run"
    /\ call.done
    /\ call.rs.race.Distance = 1600
    /\ call.rs.race.Entrants[1] = call.rs.playerHorse
    /\ \E result \in call.out :
           /\ result.PlayerRank > 1
           /\ result.Results[result.PlayerRank].HorseID = call.rs.playerHorse
           /\ result.Results[1].HorseID # call.rs.playerHorse
           /\ result.PrizeMoney = GoDiv(5000, 2) \/ result.PrizeMoney = GoDiv(5000, 4)

====
